---- MODULE Spec2Model ----
(***************************************************************************)
(* The propagation solver of src/constraints.ts (the current version, from *)
(* line 364 on) over the geometry kernel of src/geometry.ts.               *)
(*                                                                         *)
(* Numbers.  A TypeScript `number` is modelled as a fixed-point integer    *)
(* with four decimals: the integer n stands for n / Unit (millimetres for  *)
(* a length, a pure ratio for a unit vector or a cosine).  A product of    *)
(* two numbers is rounded once to the nearest 1 / Unit, and a sum of       *)
(* squares under a square root is rounded only after the root.  EPSILON    *)
(* (1.0e-3) is therefore 10.  As with a floating-point number, a number    *)
(* beyond Small keeps its leading digits only: roots and quotients of such *)
(* numbers are taken at a coarser scale.                                   *)
(***************************************************************************)
EXTENDS Integers, Sequences, FiniteSets, TLC

VARIABLES
    initialPoints,  \* solve's argument: the Map, as the sequence of its entries in iteration order
    constraints,    \* solve's argument: the Constraint[]
    solution,       \* the Map `solution` of the running call, as a function on the solved ids
    log,            \* the array `log` of the running call
    remaining,      \* the array `remaining` built by the latest loop iteration
    pc,             \* "solving" (in the while loop), "returned" or "raised" (an exception left solve)
    calls,          \* how many times the host has called solve on these arguments
    previous,       \* what the call before the running one returned or raised
    operands,       \* the arguments a locus operator is applied to, apart from solve
    outcome,        \* the operator that was applied to `operands`, and what it returned
    figures,        \* the host's Figure objects, by identity: every figure created so far
    boardFigures,   \* the host's array `boardFigures`, as the identities of its elements
    cursorMode,     \* the host's `cursorMode`
    lastSerialization, \* the host's `lastSerialization`
    pointByName,    \* the Map `pointByName` of the running recalculateConstraints
    removal         \* the latest call of deleteFigure: its argument and the board it was given

hostVars == <<figures, boardFigures, cursorMode, lastSerialization, pointByName, removal>>

vars == <<initialPoints, constraints, solution, log, remaining, pc, calls, previous, operands, outcome,
          figures, boardFigures, cursorMode, lastSerialization, pointByName, removal>>

\* No host: solve or a locus operator is applied on its own.
NoRemoval == [figure |-> 0]

\* let lastSerialization = "": the text of no board
NeverSerialized == [text |-> ""]
NoHost ==
    /\ figures = <<>>
    /\ boardFigures = <<>>
    /\ cursorMode = [tag |-> "none"]
    /\ lastSerialization = NeverSerialized
    /\ pointByName = <<>>
    /\ removal = NoRemoval

-----------------------------------------------------------------------------
(* Fixed-point arithmetic *)

Unit == 10000

EPSILON == 10

Abs(n) == IF n < 0 THEN -n ELSE n

Sign(n) == IF n < 0 THEN -1 ELSE IF n > 0 THEN 1 ELSE 0

\* n / d in the integers, rounded to the nearest (d # 0).
RDiv(n, d) ==
    LET dd == Abs(d)
        nn == IF d < 0 THEN -n ELSE n
    IN (nn \div dd) + (IF 2 * (nn % dd) >= dd THEN 1 ELSE 0)

\* The product of two numbers (a * b / Unit), both factors split so that
\* no intermediate leaves the 32-bit range.
Mul(a, b) ==
    LET ah == a \div Unit
        al == a % Unit
        bh == b \div Unit
        bl == b % Unit
    IN ah * bh * Unit + ah * bl + al * bh + RDiv(al * bl, Unit)

\* r * Unit / b for 0 <= r < b
RECURSIVE Fraction(_, _)
Fraction(r, b) ==
    IF r <= 200000 THEN RDiv(r * Unit, b) ELSE Fraction(r \div 2, RDiv(b, 2))

\* The quotient of two numbers (a / b), b # 0.
Div(a, b) ==
    LET q == Abs(a) \div Abs(b)
        r == Abs(a) % Abs(b)
    IN Sign(a) * Sign(b) * (q * Unit + Fraction(r, Abs(b)))

RECURSIVE SqrtIter(_, _)
SqrtIter(n, x) ==
    LET y == (x + n \div x) \div 2
    IN IF y >= x THEN x ELSE SqrtIter(n, y)

\* Math.sqrt of a raw sum of squares (units of 1 / Unit^2), to the nearest 1 / Unit.
Sqrt(n) ==
    IF n <= 0 THEN 0
    ELSE LET s == SqrtIter(n, IF n < 46340 THEN n ELSE 46340)
         IN IF n - s * s > s THEN s + 1 ELSE s

\* The numbers whose squares are exact.
Small(n) == Abs(n) <= 32767

\* Math.sqrt(x * x + y * y)
RECURSIVE Hypot(_, _)
Hypot(x, y) ==
    IF Small(x) /\ Small(y) THEN Sqrt(x * x + y * y)
    ELSE 2 * Hypot(RDiv(x, 2), RDiv(y, 2))

\* Math.sqrt(h * h - d * d)
RECURSIVE Leg(_, _)
Leg(h, d) ==
    IF Small(h) /\ Small(d) THEN Sqrt(h * h - d * d)
    ELSE 2 * Leg(RDiv(h, 2), RDiv(d, 2))

\* h * h - d * d in units of 1 / Unit^2; beyond the exact range only its
\* sign and its being far from zero are kept.
SquareDifference(h, d) ==
    IF (Small(h) /\ Small(d)) \/ Abs(Abs(h) - Abs(d)) <= 3
    THEN (Abs(h) - Abs(d)) * (Abs(h) + Abs(d))
    ELSE Sign(Abs(h) - Abs(d)) * 1073741824

\* a * b for a, b >= 0 as three digits of base 32768
Product(a, b) ==
    LET ah == a \div 32768
        al == a % 32768
        bh == b \div 32768
        bl == b % 32768
        low == al * bl
        mid == ah * bl + al * bh + (low \div 32768)
    IN <<ah * bh + (mid \div 32768), mid % 32768, low % 32768>>

\* a * b = c * d, exactly
sameProduct(a, b, c, d) ==
    /\ Sign(a) * Sign(b) = Sign(c) * Sign(d)
    /\ Product(Abs(a), Abs(b)) = Product(Abs(c), Abs(d))

-----------------------------------------------------------------------------
(* src/geometry.ts *)

Pos(x, y) == [x |-> x, y |-> y]

\* Map.get of an absent key, and the value of a NaN vector
Undefined == [tag |-> "undefined"]
NaNPosition == [tag |-> "NaN"]

isFinite(p) == p # NaNPosition

pointDistance(a, b) ==
    LET dx == b.x - a.x
        dy == b.y - a.y
    IN Hypot(dx, dy)

pointSubtract(left, right) == Pos(left.x - right.x, left.y - right.y)

pointMagnitude(a) == Hypot(a.x, a.y)

\* linearSum([1 / pointMagnitude(p), p]): 1 / 0 is Infinity and Infinity * 0 is NaN
scaledBy(p, m) == IF m = 0 THEN NaNPosition ELSE Pos(Div(p.x, m), Div(p.y, m))

pointUnit(p) == scaledBy(p, pointMagnitude(p))

pointDot(a, b) ==
    IF Small(a.x) /\ Small(a.y) /\ Small(b.x) /\ Small(b.y)
    THEN RDiv(a.x * b.x + a.y * b.y, Unit)
    ELSE Mul(a.x, b.x) + Mul(a.y, b.y)

\* linearSum(...vs) for vs a sequence of <<coefficient, vector>>
RECURSIVE linearSum(_)
linearSum(vs) ==
    IF vs = <<>> THEN Pos(0, 0)
    ELSE LET rest == linearSum(Tail(vs))
             c == Head(vs)[1]
             v == Head(vs)[2]
         IN Pos(rest.x + Mul(c, v.x), rest.y + Mul(c, v.y))

\* the value Segment.asVector returns for the offsets dx, dy of length dm
vectorOf(dx, dy, dm) ==
    IF dm = 0 THEN [direction |-> Pos(0, 0), length |-> 0]
    ELSE [direction |-> Pos(Div(dx, dm), Div(dy, dm)), length |-> dm]

\* Segment.asVector
asVector(from, to) == vectorOf(to.x - from.x, to.y - from.y, Hypot(to.x - from.x, to.y - from.y))

\* the point of the line from `from` along the vector v that is nearest to q
nearestAlong(from, q, v) ==
    LET dot == pointDot(pointSubtract(q, from), v.direction)
    IN IF v.length = 0 THEN from
       ELSE Pos(from.x + Mul(dot, v.direction.x), from.y + Mul(dot, v.direction.y))

\* new Segment(from, to).nearestToLine(q).position
nearestToLine(from, to, q) == nearestAlong(from, q, asVector(from, to))

\* The zero test `denominator === 0` is decided on the direction vectors
\* themselves (their cross product), so that exactly parallel lines are
\* parallel whatever the rounding of the two unit vectors.
\* the point lineIntersection returns for the unit directions da, db
intersectionAlong(a, b, da, db, denominator) ==
    LET na == Pos(da.y, -da.x)
        numerator == pointDot(pointSubtract(b.from, a.from), na)
    IN IF denominator = 0 THEN [tag |-> "null"]
       ELSE linearSum(<< <<Unit, b.from>>, <<-Div(numerator, denominator), db>> >>)

\* db . na, the denominator of lineIntersection
denominatorOf(ra, rb, da, db) ==
    IF sameProduct(rb.x, ra.y, rb.y, ra.x) THEN 0 ELSE pointDot(db, Pos(da.y, -da.x))

directedIntersection(a, b, ra, rb, da, db) ==
    intersectionAlong(a, b, da, db, denominatorOf(ra, rb, da, db))

lineIntersection(a, b) ==
    directedIntersection(a, b, pointSubtract(a.to, a.from), pointSubtract(b.to, b.from),
                         pointUnit(pointSubtract(a.to, a.from)), pointUnit(pointSubtract(b.to, b.from)))

Circle(center, radius) == [center |-> center, radius |-> radius]

Line(from, to) == [from |-> from, to |-> to]

\* a.radius * cos(aAngle) and a.radius * sin(aAngle) for
\* aAngle = acos((a.radius^2 + separationLength^2 - b.radius^2) / (2 * a.radius * separationLength));
\* acos is NaN when its argument is outside [-1, 1] or is itself NaN (0 / 0).
\* For a.radius, separationLength > 0 the argument is above 1 exactly when
\* |separationLength - a.radius| > b.radius and below -1 exactly when
\* separationLength + a.radius < b.radius.
lawOfCosines(ar, br, sl) ==
    LET along == RDiv(ar * ar + sl * sl - br * br, 2 * sl)
    IN IF ar = 0 \/ sl = 0 \/ Abs(sl - ar) > br \/ sl + ar < br THEN [finite |-> FALSE]
       ELSE [finite |-> TRUE, cos |-> along, sin |-> Sqrt(ar * ar - along * along)]

circleCircleIntersection(a0, b0, epsilon) ==
    LET a == Circle(a0.center, Abs(a0.radius))
        b == Circle(b0.center, Abs(b0.radius))
        separation == pointSubtract(b.center, a.center)
        separationLength == pointMagnitude(separation)
        aAngle == lawOfCosines(a.radius, b.radius, separationLength)
        horizontal == Pos(Div(separation.x, separationLength), Div(separation.y, separationLength))
        vertical == Pos(-horizontal.y, horizontal.x)
    IN IF separationLength <= epsilon
       THEN IF Abs(a.radius - b.radius) <= epsilon
            THEN [tag |-> "circle", circle |-> a]
            ELSE [tag |-> "points", points |-> <<>>]
       ELSE IF Abs(separationLength - (a.radius + b.radius)) <= epsilon
       THEN [tag |-> "points", points |-> <<
                linearSum(<< <<Unit, a.center>>, <<Div(a.radius, a.radius + b.radius), separation>> >>) >>]
       ELSE IF Abs(separationLength - Abs(a.radius - b.radius)) <= epsilon
       THEN IF a.radius > b.radius
            THEN [tag |-> "points", points |-> <<
                    linearSum(<< <<Unit, a.center>>, <<Div(a.radius, a.radius + b.radius), separation>> >>) >>]
            ELSE [tag |-> "points", points |-> <<
                    linearSum(<< <<Unit, b.center>>, <<Div(-b.radius, a.radius + b.radius), separation>> >>) >>]
       ELSE IF ~aAngle.finite
       THEN [tag |-> "points", points |-> <<>>]
       ELSE [tag |-> "points", points |-> <<
                linearSum(<< <<Unit, a.center>>, <<aAngle.cos, horizontal>>, <<aAngle.sin, vertical>> >>),
                linearSum(<< <<Unit, a.center>>, <<aAngle.cos, horizontal>>, <<-aAngle.sin, vertical>> >>) >>]

\* `radical` is a square (mm^2) compared with epsilon as a plain number.
circleLinePoints(circle, epsilon, nearest, orthgonalDistance, lineDirection) ==
    LET radical == SquareDifference(circle.radius, orthgonalDistance)
        dx == Leg(circle.radius, orthgonalDistance)
    IN IF orthgonalDistance <= epsilon
       THEN << linearSum(<< <<Unit, circle.center>>, <<circle.radius, lineDirection>> >>),
               linearSum(<< <<Unit, circle.center>>, <<-circle.radius, lineDirection>> >>) >>
       ELSE IF radical < -(epsilon * Unit) THEN <<>>
       ELSE IF radical < epsilon * Unit THEN <<nearest>>
       ELSE << linearSum(<< <<Unit, nearest>>, <<dx, lineDirection>> >>),
               linearSum(<< <<Unit, nearest>>, <<-dx, lineDirection>> >>) >>

circleLineNearest(circle, line, epsilon, nearest) ==
    circleLinePoints(circle, epsilon, nearest, pointMagnitude(pointSubtract(nearest, circle.center)),
                     pointUnit(pointSubtract(line.to, line.from)))

circleLineIntersection(circle, line, epsilon) ==
    circleLineNearest(circle, line, epsilon, nearestToLine(line.from, line.to, circle.center))

-----------------------------------------------------------------------------
(* src/constraints.ts: the locus algebra *)

Plane == [tag |-> "plane"]
Void == [tag |-> "void"]
PointGamut(p) == [tag |-> "point", point |-> p]
CircleGamut(c) == [tag |-> "circle", circle |-> c]
LineGamut(l) == [tag |-> "line", line |-> l]
UnionGamut(members) == [tag |-> "union", union |-> members]

\* The result of an evaluation that throws (an explicit `throw`, or the
\* TypeError of reading .x of undefined); the exception leaves every caller.
Raised == [tag |-> "raised"]
Null == [tag |-> "null"]

AnyRaised(seq) == \E i \in 1..Len(seq) : seq[i] = Raised

ONE_DIMENSIONAL_FREEDOM == 100000

RECURSIVE simplifyGamut(_)
RECURSIVE flatMapSimplified(_)
\* A faulty flatMap, for the sensitivity of C18: the elements are flattened
\* by one level and not simplified.
RECURSIVE flatMapShallow(_)
flatMapShallow(elements) ==
    IF elements = <<>> THEN <<>>
    ELSE (IF Head(elements).tag = "union" THEN Head(elements).union ELSE <<Head(elements)>>)
         \o flatMapShallow(Tail(elements))

\* gamut.union.flatMap(element => ...) of simplifyGamut
flatMapSimplified(elements) ==
    IF elements = <<>> THEN <<>>
    ELSE LET simplifiedElement == simplifyGamut(Head(elements))
         IN (IF simplifiedElement.tag = "union" THEN simplifiedElement.union ELSE <<simplifiedElement>>)
            \o flatMapSimplified(Tail(elements))

simplifyGamut(gamut) ==
    IF gamut.tag = "union"
    THEN LET flat == SelectSeq(flatMapSimplified(gamut.union), LAMBDA x : x.tag # "void")
         IN IF Len(flat) = 0 THEN Void
            ELSE IF Len(flat) = 1 THEN flat[1]
            ELSE UnionGamut(flat)
    ELSE gamut

\* A freedom is a number below 2^53; ONE_DIMENSIONAL_FREEDOM ** 2 is beyond
\* the 32-bit range, so a freedom is kept as its two digits in base
\* ONE_DIMENSIONAL_FREEDOM: high * ONE_DIMENSIONAL_FREEDOM + low.
Freedom(high, low) == [high |-> high, low |-> low]

FreedomSum(f, g) ==
    Freedom(f.high + g.high + (f.low + g.low) \div ONE_DIMENSIONAL_FREEDOM,
            (f.low + g.low) % ONE_DIMENSIONAL_FREEDOM)

FreedomLess(f, g) == f.high < g.high \/ (f.high = g.high /\ f.low < g.low)

RECURSIVE gamutFreedom(_)
RECURSIVE sumFreedom(_)
\* A faulty sum, for the sensitivity of C27: the members are not added up.
sumNothing(elements) == Freedom(0, 0)

sumFreedom(elements) ==
    IF elements = <<>> THEN Freedom(0, 0)
    ELSE FreedomSum(gamutFreedom(Head(elements)), sumFreedom(Tail(elements)))

\* A faulty freedom, for the sensitivity of C21: a one-dimensional locus
\* counts as one branch.
freedomWithoutRank(gamut0) ==
    LET gamut == IF gamut0.tag = "union" THEN simplifyGamut(gamut0) ELSE gamut0
    IN CASE gamut.tag = "plane" -> Freedom(ONE_DIMENSIONAL_FREEDOM, 0)
         [] gamut.tag \in {"circle", "line", "point"} -> Freedom(0, 1)
         [] gamut.tag = "void" -> Freedom(0, 0)
         [] gamut.tag = "union" -> sumFreedom(gamut.union)

gamutFreedom(gamut0) ==
    LET gamut == IF gamut0.tag = "union" THEN simplifyGamut(gamut0) ELSE gamut0
    IN CASE gamut.tag = "plane" -> Freedom(ONE_DIMENSIONAL_FREEDOM, 0)
         [] gamut.tag \in {"circle", "line"} -> Freedom(1, 0)
         [] gamut.tag = "point" -> Freedom(0, 1)
         [] gamut.tag = "void" -> Freedom(0, 0)
         [] gamut.tag = "union" -> sumFreedom(gamut.union)

RECURSIVE gamutEmpty(_)
\* A faulty emptiness, for the sensitivity of C20: the members of a union are
\* not looked into.
emptyShallow(gamut) ==
    \/ gamut.tag = "void"
    \/ gamut.tag = "union" /\ gamut.union = <<>>

gamutEmpty(gamut) ==
    \/ gamut.tag = "void"
    \/ gamut.tag = "union" /\ \A i \in 1..Len(gamut.union) : gamutEmpty(gamut.union[i])

RECURSIVE gamutNearest(_, _)
RECURSIVE nearestOfUnion(_, _, _)
\* the loop of gamutNearest over gamut.union, `best` so far
nearestOfUnion(elements, query, best) ==
    IF elements = <<>> THEN best
    ELSE LET nearest == gamutNearest(Head(elements), query)
         IN IF nearest = Raised THEN Raised
            ELSE IF nearest = Null THEN nearestOfUnion(Tail(elements), query, best)
            ELSE IF best = Null \/ pointDistance(nearest, query) < pointDistance(best, query)
            THEN nearestOfUnion(Tail(elements), query, nearest)
            ELSE nearestOfUnion(Tail(elements), query, best)

\* A faulty nearest, for the sensitivity of C12: the query is not consulted.
nearestIgnoringQuery(gamut, query) == IF gamut.tag = "void" THEN Null ELSE Pos(0, 0)

gamutNearest(gamut, query) ==
    CASE gamut.tag = "plane" -> query
      [] gamut.tag = "circle" ->
            IF gamut.circle.center = Undefined THEN Raised
            ELSE LET delta == pointSubtract(query, gamut.circle.center)
                     deltaMagnitude == pointMagnitude(delta)
                 IN IF deltaMagnitude <= EPSILON
                    THEN linearSum(<< <<Unit, gamut.circle.center>>, <<gamut.circle.radius, Pos(Unit, 0)>> >>)
                    ELSE linearSum(<< <<Unit, gamut.circle.center>>,
                                      <<Div(gamut.circle.radius, deltaMagnitude), delta>> >>)
      [] gamut.tag = "point" -> gamut.point
      [] gamut.tag = "union" -> nearestOfUnion(gamut.union, query, Null)
      [] gamut.tag = "line" -> nearestToLine(gamut.line.from, gamut.line.to, query)
      [] gamut.tag = "void" -> Null

PointGamuts(points) == [i \in 1..Len(points) |-> PointGamut(points[i])]

\* A faulty wrapping, for the sensitivity of C29: the intersection of the
\* two circles is dropped.
circlesGamutPlane(intersection) == Plane

\* what gamutCircleIntersection returns for a circle, of the intersection of the two circles
circlesGamut(intersection) ==
    IF intersection.tag = "circle" THEN intersection
    ELSE UnionGamut(PointGamuts(intersection.points))

\* what gamutCircleIntersection returns for a line, of the intersections with the line
pointsGamut(intersections) ==
    IF Len(intersections) = 0 THEN Void
    ELSE UnionGamut(PointGamuts(intersections))

RECURSIVE gamutCircleIntersection(_, _, _)
gamutCircleIntersection(gamut, circle, epsilon) ==
    CASE gamut.tag = "plane" -> CircleGamut(circle)
      [] gamut.tag = "circle" ->
            IF gamut.circle.center = Undefined \/ circle.center = Undefined THEN Raised
            ELSE circlesGamut(circleCircleIntersection(gamut.circle, circle, epsilon))
      [] gamut.tag = "point" ->
            IF circle.center = Undefined THEN Raised
            ELSE LET distance == Abs(pointDistance(gamut.point, circle.center) - circle.radius)
                 IN IF distance >= epsilon THEN Void ELSE gamut
      [] gamut.tag = "line" ->
            IF circle.center = Undefined THEN Raised
            ELSE pointsGamut(circleLineIntersection(circle, gamut.line, EPSILON))
      [] gamut.tag = "void" -> Void
      [] gamut.tag = "union" ->
            LET sub == [i \in 1..Len(gamut.union) |->
                            gamutCircleIntersection(gamut.union[i], circle, epsilon)]
            IN IF AnyRaised(sub) THEN Raised ELSE simplifyGamut(UnionGamut(sub))

RECURSIVE circleLinesPoints(_, _, _)
\* the loop of gamutLinesIntersection over `lines` for a circle
circleLinesPoints(circle, lines, epsilon) ==
    IF lines = <<>> THEN <<>>
    ELSE PointGamuts(circleLineIntersection(circle, Head(lines), epsilon))
         \o circleLinesPoints(circle, Tail(lines), epsilon)

RECURSIVE lineLinesLoop(_, _, _)
\* the loop of gamutLinesIntersection over `lines` for a line, `out` so far
\* the iteration of that loop for Head(lines), which meets gamut.line at pointOrNull
lineLinesStep(gamut, lines, out, pointOrNull) ==
    LET line == Head(lines)
        nearest == nearestToLine(line.from, line.to, gamut.line.from)
        separation == pointDistance(gamut.line.from, nearest)
    IN IF pointOrNull # Null
       THEN lineLinesLoop(gamut, Tail(lines), Append(out, PointGamut(pointOrNull)))
       ELSE IF separation <= EPSILON THEN gamut ELSE Void

lineLinesLoop(gamut, lines, out) ==
    IF lines = <<>> THEN simplifyGamut(UnionGamut(out))
    ELSE lineLinesStep(gamut, lines, out, lineIntersection(Head(lines), gamut.line))

RECURSIVE gamutLinesIntersection(_, _, _)
gamutLinesIntersection(gamut, lines, epsilon) ==
    CASE gamut.tag = "plane" -> UnionGamut([i \in 1..Len(lines) |-> LineGamut(lines[i])])
      [] gamut.tag = "circle" ->
            IF gamut.circle.center = Undefined /\ lines # <<>> THEN Raised
            ELSE UnionGamut(circleLinesPoints(gamut.circle, lines, epsilon))
      [] gamut.tag = "line" -> lineLinesLoop(gamut, lines, <<>>)
      [] gamut.tag = "point" ->
            IF \E i \in 1..Len(lines) :
                    pointDistance(nearestToLine(lines[i].from, lines[i].to, gamut.point), gamut.point)
                        <= EPSILON
            THEN gamut ELSE Void
      [] gamut.tag = "union" ->
            LET sub == [i \in 1..Len(gamut.union) |->
                            gamutLinesIntersection(gamut.union[i], lines, epsilon)]
            IN IF AnyRaised(sub) THEN Raised ELSE simplifyGamut(UnionGamut(sub))
      [] gamut.tag = "void" -> Void

RECURSIVE gamutGamutIntersection(_, _, _)
\* A faulty intersection, for the sensitivity of C19: void is tested before
\* the plane, and only a plane on the left is the identity.
planeOnTheLeftOnly(a, b, epsilon) ==
    IF a.tag = "void" \/ b.tag = "void" THEN Void
    ELSE IF a.tag = "plane" THEN b
    ELSE Void

gamutGamutIntersection(a, b, epsilon) ==
    IF a.tag = "plane" THEN b
    ELSE IF b.tag = "plane" THEN a
    ELSE IF a.tag = "void" \/ b.tag = "void" THEN Void
    ELSE IF b.tag = "union"
    THEN LET sub == [i \in 1..Len(b.union) |-> gamutGamutIntersection(a, b.union[i], epsilon)]
         IN IF AnyRaised(sub) THEN Raised ELSE simplifyGamut(UnionGamut(sub))
    ELSE IF b.tag = "circle" THEN gamutCircleIntersection(a, b.circle, epsilon)
    ELSE IF b.tag = "line" THEN gamutLinesIntersection(a, <<b.line>>, epsilon)
    ELSE LET nearest == gamutNearest(a, b.point)
         IN IF nearest = Raised THEN Raised
            ELSE IF nearest = Null \/ pointDistance(nearest, b.point) > epsilon THEN Void
            ELSE b

-----------------------------------------------------------------------------
(* src/constraints.ts: constraints and their loci *)

FixedConstraint(a, position) == [tag |-> "fixed", a |-> a, position |-> position]
DistanceConstraint(a, b, distance) == [tag |-> "distance", a |-> a, b |-> b, distance |-> distance]
\* A pair { p0, p1 } of a constraint is kept as two fields of the constraint
\* (a_p0 and a_p1 for a: { p0, p1 }), so that the field a of every
\* constraint that has one is a point id.
Pair(p0, p1) == [p0 |-> p0, p1 |-> p1]
AngleContraint(a, b, angleRadians) ==
    [tag |-> "angle", a_p0 |-> a.p0, a_p1 |-> a.p1, b_p0 |-> b.p0, b_p1 |-> b.p1,
     angleRadians |-> angleRadians]
PointSegmentDistanceConstraint(a, b, distance) ==
    [tag |-> "segment-distance", a |-> a, b_p0 |-> b.p0, b_p1 |-> b.p1, distance |-> distance]

constraintDependencies(constraint) ==
    CASE constraint.tag = "distance" -> <<constraint.a, constraint.b>>
      [] constraint.tag = "fixed" -> <<constraint.a>>
      [] constraint.tag = "angle" ->
            <<constraint.a_p0, constraint.a_p1, constraint.b_p0, constraint.b_p1>>
      [] constraint.tag = "segment-distance" ->
            <<constraint.a, constraint.b_p0, constraint.b_p1>>

\* Map.prototype.get
Get(map, key) == IF key \in DOMAIN map THEN map[key] ELSE Undefined

\* Angles are numbers (radians, in 1 / Unit); the model's angles are 0, pi/4
\* and pi/2, and Math.cos and Math.sin are tabulated for them.
QUARTER_PI == 7854
HALF_PI == 15708

MathCos(radians) ==
    CASE radians = 0 -> Unit
      [] radians = QUARTER_PI -> 7071
      [] radians = HALF_PI -> 0

MathSin(radians) ==
    CASE radians = 0 -> 0
      [] radians = QUARTER_PI -> 7071
      [] radians = HALF_PI -> Unit

\* (cos(atan2(u.y, u.x) + radians), sin(atan2(u.y, u.x) + radians)) for a unit vector u
Rotated(u, cos, sin) == Pos(Mul(u.x, cos) - Mul(u.y, sin), Mul(u.y, cos) + Mul(u.x, sin))

\* The inscribed-angle branch of localConstraintToGamut.  Math.tan(pi/2) is
\* about 1.6e16, so the height is 0 there; the model does not take an angle
\* of 0 (a height of Infinity) into this branch.
inscribedAngleGamut(myLine, otherLine, angleRadians, fixed) ==
    LET angleFirst == IF Get(fixed, myLine.p0) # Undefined
                      THEN Get(fixed, myLine.p0) ELSE Get(fixed, myLine.p1)
        angleSecond == IF Get(fixed, otherLine.p0) # Undefined
                       THEN Get(fixed, otherLine.p0) ELSE Get(fixed, otherLine.p1)
        isoscelesBase == pointDistance(angleFirst, angleSecond)
        isoscelesHeight == IF MathCos(angleRadians) = 0 THEN 0
                           ELSE Div(isoscelesBase \div 2, Div(MathSin(angleRadians), MathCos(angleRadians)))
        direction == pointUnit(pointSubtract(angleSecond, angleFirst))
        perpendicular == Pos(-direction.y, direction.x)
        centerPositive == linearSum(<< <<Unit \div 2, angleFirst>>, <<Unit \div 2, angleSecond>>,
                                       <<isoscelesHeight, perpendicular>> >>)
        centerNegative == linearSum(<< <<Unit \div 2, angleFirst>>, <<Unit \div 2, angleSecond>>,
                                       <<-isoscelesHeight, perpendicular>> >>)
        radius == pointDistance(centerPositive, angleFirst)
    IN IF angleFirst = Undefined \/ angleSecond = Undefined THEN Raised
       ELSE IF ~isFinite(direction) THEN Void
       ELSE UnionGamut(<< CircleGamut(Circle(centerNegative, radius)),
                          CircleGamut(Circle(centerPositive, radius)) >>)

\* The branch of localConstraintToGamut that rotates otherLine about otherPoint.
rotatedLinesGamut(variable, myLine, otherLine, angleRadians, fixed, epsilon) ==
    LET p1Solution == Get(fixed, otherLine.p1)
        p0Solution == Get(fixed, otherLine.p0)
        otherLineDirection == pointSubtract(p1Solution, p0Solution)
        u == pointUnit(otherLineDirection)
        directionPositive == Rotated(u, MathCos(angleRadians), MathSin(angleRadians))
        directionNegative == Rotated(u, MathCos(angleRadians), -MathSin(angleRadians))
        otherPoint == IF myLine.p0 = variable THEN myLine.p1 ELSE myLine.p0
        otherPointPosition == Get(fixed, otherPoint)
        lines == << LineGamut(Line(otherPointPosition,
                        linearSum(<< <<Unit, otherPointPosition>>, <<Unit, directionPositive>> >>))),
                    LineGamut(Line(otherPointPosition,
                        linearSum(<< <<Unit, otherPointPosition>>, <<Unit, directionNegative>> >>))) >>
    IN IF p0Solution = Undefined \/ p1Solution = Undefined THEN Raised
       ELSE IF pointMagnitude(otherLineDirection) < epsilon THEN Plane
       ELSE IF otherPointPosition = Undefined THEN Raised
       ELSE IF Abs(angleRadians) <= epsilon \/ Abs(angleRadians - HALF_PI) <= epsilon
       THEN UnionGamut(SubSeq(lines, 1, 1))
       ELSE UnionGamut(lines)

\* The segment-distance branch of localConstraintToGamut.
\* Math.tan(Math.asin(s)) is s / sqrt(1 - s * s); asin is NaN for |s| > 1.
segmentDistanceGamut(variable, constraint, fixed, epsilon) ==
    IF constraint.a = constraint.b_p0 \/ constraint.a = constraint.b_p1 THEN Plane
    ELSE IF variable = constraint.a
    THEN LET from == Get(fixed, constraint.b_p0)
             to == Get(fixed, constraint.b_p1)
             parallel == pointUnit(pointSubtract(to, from))
             perpendicular == Pos(-parallel.y, parallel.x)
             d == constraint.distance
         IN IF from = Undefined \/ to = Undefined THEN Raised
            ELSE IF ~isFinite(parallel) THEN Plane
            ELSE UnionGamut(<<
                    LineGamut(Line(linearSum(<< <<Unit, from>>, <<d, perpendicular>> >>),
                                   linearSum(<< <<Unit, to>>, <<d, perpendicular>> >>))),
                    LineGamut(Line(linearSum(<< <<Unit, from>>, <<-d, perpendicular>> >>),
                                   linearSum(<< <<Unit, to>>, <<-d, perpendicular>> >>))) >>)
    ELSE LET a == Get(fixed, constraint.a)
             bOther == Get(fixed, IF variable = constraint.b_p0 THEN constraint.b_p1 ELSE constraint.b_p0)
             separationAB == pointSubtract(a, bOther)
             separationABDistance == pointMagnitude(separationAB)
             perpendicular == Pos(-separationAB.y, separationAB.x)
             d == constraint.distance
             tanTheta == Div(d, Leg(separationABDistance, d))
             slope == Div(tanTheta, separationABDistance)
         IN IF a = Undefined \/ bOther = Undefined THEN Raised
            ELSE IF separationABDistance < epsilon THEN Plane
            ELSE IF Abs(separationABDistance - d) < epsilon
            THEN LineGamut(Line(bOther, linearSum(<< <<Unit, bOther>>, <<Unit, perpendicular>> >>)))
            ELSE IF Abs(d) > separationABDistance THEN Void
            ELSE UnionGamut(<<
                    LineGamut(Line(bOther, linearSum(<< <<Unit, bOther>>, <<Unit, separationAB>>,
                                                        <<slope, perpendicular>> >>))),
                    LineGamut(Line(bOther, linearSum(<< <<Unit, bOther>>, <<Unit, separationAB>>,
                                                        <<-slope, perpendicular>> >>))) >>)

localConstraintToGamut(variable, constraint, fixed, epsilon) ==
    CASE constraint.tag = "fixed" -> PointGamut(constraint.position)
      [] constraint.tag = "distance" ->
            LET fixedPoint == IF constraint.a = variable
                              THEN Get(fixed, constraint.b) ELSE Get(fixed, constraint.a)
            IN CircleGamut(Circle(fixedPoint, constraint.distance))
      [] constraint.tag = "angle" ->
            LET a == Pair(constraint.a_p0, constraint.a_p1)
                b == Pair(constraint.b_p0, constraint.b_p1)
                mine == variable = a.p0 \/ variable = a.p1
                myLine == IF mine THEN a ELSE b
                otherLine == IF mine THEN b ELSE a
            IN IF otherLine.p0 = variable \/ otherLine.p1 = variable
               THEN inscribedAngleGamut(myLine, otherLine, constraint.angleRadians, fixed)
               ELSE rotatedLinesGamut(variable, myLine, otherLine, constraint.angleRadians, fixed, epsilon)
      [] constraint.tag = "segment-distance" ->
            segmentDistanceGamut(variable, constraint, fixed, epsilon)

RECURSIVE solveLocalLoop(_, _, _, _, _)
\* the loop of solveLocal after its iteration for Head(cs), of locus
\* constraintLocus, has left the intersection `next`
solveLocalNext(variable, cs, solved, constraintLoci, constraintLocus, next) ==
    IF next = Raised THEN Raised
    ELSE solveLocalLoop(variable, Tail(cs), solved, next, Append(constraintLoci, constraintLocus))

\* the iteration of the loop of solveLocal for Head(cs), of locus constraintLocus
solveLocalStep(variable, cs, solved, intersection, constraintLoci, constraintLocus) ==
    IF constraintLocus = Raised THEN Raised
    ELSE solveLocalNext(variable, cs, solved, constraintLoci, constraintLocus,
                        gamutGamutIntersection(intersection, constraintLocus, EPSILON))

\* the loop of solveLocal, `intersection` and `constraintLoci` so far
solveLocalLoop(variable, cs, solved, intersection, constraintLoci) ==
    IF cs = <<>>
    THEN [intersection |-> intersection, constraints |-> constraintLoci,
          freedom |-> gamutFreedom(intersection)]
    ELSE solveLocalStep(variable, cs, solved, intersection, constraintLoci,
                        localConstraintToGamut(variable, Head(cs), solved, EPSILON))

\* A faulty local solver, for the sensitivity of C9: no constraint
\* contributes a locus.
solveNothing(variable, cs, solved) ==
    [intersection |-> Plane, constraints |-> <<>>, freedom |-> gamutFreedom(Plane)]

solveLocal(variable, cs, solved) == solveLocalLoop(variable, cs, solved, Plane, <<>>)

-----------------------------------------------------------------------------
(* src/data.ts and src/constraints.ts: solve *)

\* The value Infinity of the sort key
Infinity == [tag |-> "Infinity"]

\* A faulty sort key, for the sensitivity of C4: a void local solution
\* keeps its freedom 0 as its key.
keyWithoutInfinity(r) == r.localSolution.freedom

\* r => r.localSolution.freedom === 0 ? Infinity : r.localSolution.freedom
constrainmentKey(r) ==
    IF r.localSolution.freedom = Freedom(0, 0) THEN Infinity ELSE r.localSolution.freedom

\* A faulty comparator, for the sensitivity of C15: (a, b) => f(b) - f(a).
compareKeysReversed(fa, fb) ==
    IF fa = Infinity /\ fb = Infinity THEN 0
    ELSE IF fa = Infinity THEN -1
    ELSE IF fb = Infinity THEN 1
    ELSE IF FreedomLess(fa, fb) THEN 1
    ELSE IF FreedomLess(fb, fa) THEN -1
    ELSE 0

\* The sign of the comparator (a, b) => f(a) - f(b) as Array.prototype.sort
\* reads it: Infinity - Infinity is NaN, which sort takes for +0.
compareKeys(fa, fb) ==
    IF fa = Infinity /\ fb = Infinity THEN 0
    ELSE IF fa = Infinity THEN 1
    ELSE IF fb = Infinity THEN -1
    ELSE IF FreedomLess(fa, fb) THEN -1
    ELSE IF FreedomLess(fb, fa) THEN 1
    ELSE 0

\* A faulty order, for the sensitivity of C5: of two elements that compare
\* equal the later one of the array goes first.
precedesUnstable(fa, fb, j, i) ==
    \/ compareKeys(fa, fb) < 0
    \/ compareKeys(fa, fb) = 0 /\ j > i

\* Array.prototype.sort is stable: the element at index j (key fa) goes
\* before the element at index i (key fb) when it compares below it, or
\* compares equal and precedes it in the array.
precedes(fa, fb, j, i) ==
    \/ compareKeys(fa, fb) < 0
    \/ compareKeys(fa, fb) = 0 /\ j < i

\* [...array].sort((a, b) => f(a) - f(b)), the function f given by its
\* values on the elements of the array: f[i] is f(array[i]).
sortedBy(array, f) ==
    LET n == Len(array)
        rank(i) == Cardinality({j \in 1..n : precedes(f[j], f[i], j, i)}) + 1
    IN [k \in 1..n |-> array[CHOOSE i \in 1..n : rank(i) = k]]

\* constraintDependencies(constraint).includes(variable)
includes(seq, e) == \E i \in 1..Len(seq) : seq[i] = e

\* A faulty closure, for the sensitivity of C8: the excepted variable is
\* required to be solved as well.
constraintIsCertain(constraint, except, solved) ==
    LET dependencies == constraintDependencies(constraint)
    IN \A i \in 1..Len(dependencies) : dependencies[i] \in DOMAIN solved

\* the closure constraintIsCertainExcept of solve, over its Map `solution`
constraintIsCertainExcept(constraint, except, solved) ==
    LET dependencies == constraintDependencies(constraint)
        uncertain == {i \in 1..Len(dependencies) :
                        dependencies[i] # except /\ dependencies[i] \notin DOMAIN solved}
    IN uncertain = {}

\* A faulty start, for the sensitivity of C10: the map of the previous call
\* is used again.
keptSolution(leftover) == leftover

\* const solution = new Map(): nothing a previous call left behind is kept
newSolution(leftover) == <<>>

\* A faulty start, for the sensitivity of C11: the array of the previous call
\* is pushed to again.
keptLog(leftover) == leftover

\* const log = []
newLog(leftover) == <<>>

\* The entry of `remaining` for one unsolved variable (the body of the for
\* loop of solve), with the array `certain` it was computed from; Raised
\* when solveLocal throws.
pushed(variable, localSolution, initialPoint, certain) ==
    IF localSolution = Raised THEN Raised
    ELSE [variable |-> variable, localSolution |-> localSolution,
          initialPoint |-> initialPoint, certain |-> certain]

\* the array `certain` of the for loop of solve
certainOf(variable, cs, solved) ==
    LET relevant == SelectSeq(cs, LAMBDA constraint : includes(constraintDependencies(constraint), variable))
    IN SelectSeq(relevant, LAMBDA x : constraintIsCertainExcept(x, variable, solved))

solvedEntry(variable, initialPoint, certain, solved) ==
    pushed(variable, solveLocal(variable, certain, solved), initialPoint, certain)

remainingEntry(variable, initialPoint, cs, solved) ==
    solvedEntry(variable, initialPoint, certainOf(variable, cs, solved), solved)

\* The array `remaining` after the for loop of solve
remainingOf(points, cs, solved) ==
    LET unsolved == SelectSeq(points, LAMBDA entry : entry[1] \notin DOMAIN solved)
    IN [i \in 1..Len(unsolved) |-> remainingEntry(unsolved[i][1], unsolved[i][2], cs, solved)]

\* A faulty commit, for the sensitivity of C7: the locus is not consulted.
alwaysInitial(mostConstrained) == mostConstrained.initialPoint

\* sortedBy(remaining, r => r.localSolution.freedom === 0 ? Infinity : r.localSolution.freedom)
byConstrainment(built) == sortedBy(built, [i \in 1..Len(built) |-> constrainmentKey(built[i])])

\* gamutNearest(...) || mostConstrained.initialPoint
nearestOrInitial(mostConstrained) ==
    LET nearest == gamutNearest(mostConstrained.localSolution.intersection, mostConstrained.initialPoint)
    IN IF nearest = Null THEN mostConstrained.initialPoint ELSE nearest

\* { ...mostConstrained, solution: nearest }
logEntry(mostConstrained, nearest) ==
    [variable |-> mostConstrained.variable, localSolution |-> mostConstrained.localSolution,
     initialPoint |-> mostConstrained.initialPoint, solution |-> nearest]

\* solution.set(key, value)
MapSet(map, key, value) ==
    [k \in DOMAIN map \cup {key} |-> IF k = key THEN value ELSE map[k]]

\* A faulty loop condition, for the sensitivity of C2: the loop is left one
\* id early.
stopsEarly(solved, points) == Cardinality(DOMAIN solved) + 1 < Len(points)

\* while (solution.size < initialPoints.size)
loopCondition(solved, points) == Cardinality(DOMAIN solved) < Len(points)

-----------------------------------------------------------------------------
(* The arguments of solve *)

MaxConstraints == 4
MaxCalls == 2

\* Positions and lengths of the inputs lie on a grid of 100 * EPSILON.
Cell == 100 * EPSILON
P(x, y) == Pos(x * Cell, y * Cell)
L(n) == n * Cell

\* The constraints the enumerated systems are drawn from.
ConstraintPool == <<
    FixedConstraint("a", P(0, 0)),
    DistanceConstraint("a", "b", L(4)),
    DistanceConstraint("a", "c", L(6)),
    DistanceConstraint("b", "c", L(2)),
    FixedConstraint("b", P(4, 0)),
    FixedConstraint("b", P(1, 3)),
    DistanceConstraint("c", "c", L(2)),
    PointSegmentDistanceConstraint("c", Pair("a", "b"), L(3)),
    AngleContraint(Pair("a", "b"), Pair("b", "c"), HALF_PI),
    AngleContraint(Pair("a", "c"), Pair("c", "b"), QUARTER_PI),
    AngleContraint(Pair("c", "c"), Pair("a", "b"), HALF_PI) >>

\* The constraint lists of the enumerated systems: the constraints of the
\* pool at the chosen indices, in the order of the pool.
RECURSIVE PoolList(_, _)
PoolList(indices, from) ==
    IF from > Len(ConstraintPool) THEN <<>>
    ELSE (IF from \in indices THEN <<ConstraintPool[from]>> ELSE <<>>) \o PoolList(indices, from + 1)

ConstraintLists ==
    {PoolList(indices, 1) : indices \in {s \in SUBSET (1..Len(ConstraintPool)) : Cardinality(s) <= MaxConstraints}}

\* The initial maps of the enumerated systems, as their entries in iteration order.
InitialMaps == {
    <<>>,
    << <<"c", P(4, 4)>> >>,
    << <<"a", P(1, 1)>>, <<"b", P(5, 0)>>, <<"c", P(4, 4)>> >>,
    << <<"c", P(4, 4)>>, <<"b", P(5, 0)>>, <<"a", P(1, 1)>> >>,
    << <<"b", P(5, 0)>>, <<"c", P(4, 4)>>, <<"a", P(1, 1)>> >> }

Input(points, cs) == [initialPoints |-> points, constraints |-> cs]

EnumeratedInputs == {Input(points, cs) : points \in InitialMaps, cs \in ConstraintLists}

\* The triangle of the smoke test (src/unnamed/part_002, lines 265-297), to scale.
TriangleInput ==
    Input(<< <<"a", P(2, 2)>>, <<"b", P(4, 6)>>, <<"c", P(8, 9)>> >>,
          << FixedConstraint("a", P(1, 1)),
             DistanceConstraint("a", "b", L(5)),
             DistanceConstraint("a", "c", L(5)),
             DistanceConstraint("b", "c", L(5)) >>)

\* The constraint list of the triangle with a pinned at p and sides d.
TriangleSystem(p, d) ==
    << FixedConstraint("a", p),
       DistanceConstraint("a", "b", d),
       DistanceConstraint("a", "c", d),
       DistanceConstraint("b", "c", d) >>

\* The sides of the enumerated triangles, from below EPSILON up.
TriangleSides == {EPSILON \div 2, EPSILON, 2 * EPSILON, L(1), L(5)}

\* The enumerated triangles: initial order a, b, c; b starts on a's pin, off
\* it, or beyond it; c starts on the line through a and b or off it.
TriangleInputs ==
    {Input(<< <<"a", P(2, 2)>>, <<"b", ib>>, <<"c", ic>> >>, TriangleSystem(p, d)) :
        p \in {P(0, 0), P(1, 1)},
        d \in TriangleSides,
        ib \in {P(0, 0), P(4, 6), P(-3, 2)},
        ic \in {P(8, 9), P(-6, -9), P(0, 0)}}

\* u lies on two internally tangent circles (about a and b) and on a circle
\* about w, and is pinned to the tangent point; w is pinned twice.
TangentInput ==
    Input(<< <<"a", P(1, 1)>>, <<"b", P(5, 0)>>, <<"w", P(6, 3)>>, <<"u", P(5, 5)>> >>,
          << FixedConstraint("a", P(0, 0)),
             FixedConstraint("b", P(4, 0)),
             FixedConstraint("w", P(1, 1)),
             FixedConstraint("w", P(2, 2)),
             DistanceConstraint("w", "u", L(3)),
             DistanceConstraint("a", "u", L(6)),
             DistanceConstraint("b", "u", L(2)),
             FixedConstraint("u", P(6, 0)) >>)

\* c lies on two internally tangent circles, about a and about b.
InternalTangentInput ==
    Input(<< <<"a", P(1, 1)>>, <<"b", P(5, 0)>>, <<"c", P(4, 4)>> >>,
          << FixedConstraint("a", P(0, 0)),
             FixedConstraint("b", P(4, 0)),
             DistanceConstraint("a", "c", L(6)),
             DistanceConstraint("b", "c", L(2)) >>)

Scenarios == {TriangleInput, TangentInput, InternalTangentInput}

Inputs == EnumeratedInputs \cup Scenarios \cup TriangleInputs

-----------------------------------------------------------------------------
(* The state machine: a host calls solve on fixed arguments; one step of    *)
(* solve is one iteration of its while loop.                                *)

NoResult == [pc |-> "none"]

\* No locus operator is applied apart from solve.
NoOperands == [tag |-> "none"]
NoOutcome == [op |-> "none"]

Init ==
    /\ initialPoints \in {input.initialPoints : input \in Inputs}
    /\ constraints \in {input.constraints : input \in Inputs}
    /\ Input(initialPoints, constraints) \in Inputs
    /\ solution = newSolution(<<>>)
    /\ log = newLog(<<>>)
    /\ remaining = <<>>
    /\ pc = "solving"
    /\ calls = 1
    /\ previous = NoResult
    /\ operands = NoOperands
    /\ outcome = NoOutcome
    /\ NoHost

\* One iteration of the while loop of solve (lines 523-549).
Round ==
    /\ pc = "solving"
    /\ loopCondition(solution, initialPoints)
    /\ \E built \in {remainingOf(initialPoints, constraints, solution)} :
        IF AnyRaised(built)
        THEN /\ pc' = "raised"
             /\ remaining' = <<>>
             /\ UNCHANGED <<solution, log>>
        ELSE \E mostConstrained \in {byConstrainment(built)[1]} :
                \E nearest \in {nearestOrInitial(mostConstrained)} :
                    IF nearest = Raised
                    THEN /\ pc' = "raised"
                         /\ remaining' = <<>>
                         /\ UNCHANGED <<solution, log>>
                    ELSE /\ remaining' = built
                         /\ log' = Append(log, logEntry(mostConstrained, nearest))
                         /\ solution' = MapSet(solution, mostConstrained.variable, nearest)
                         /\ pc' = "solving"
    /\ UNCHANGED <<initialPoints, constraints, calls, previous, operands, outcome>>
    /\ UNCHANGED hostVars

\* The while loop ends and solve returns { solution, log } (line 551).
Return ==
    /\ pc = "solving"
    /\ ~loopCondition(solution, initialPoints)
    /\ pc' = "returned"
    /\ UNCHANGED <<initialPoints, constraints, solution, log, remaining, calls, previous, operands, outcome>>
    /\ UNCHANGED hostVars

\* The host calls solve again on the same arguments (src/main.ts, line 1189).
Call ==
    /\ pc \in {"returned", "raised"}
    /\ calls < MaxCalls
    /\ previous' = [pc |-> pc, solution |-> solution, log |-> log]
    /\ solution' = newSolution(solution)
    /\ log' = newLog(log)
    /\ remaining' = <<>>
    /\ pc' = "solving"
    /\ calls' = calls + 1
    /\ UNCHANGED <<initialPoints, constraints, operands, outcome>>
    /\ UNCHANGED hostVars

Next == Round \/ Return \/ Call

Spec == Init /\ [][Next]_vars

\* A faulty return, for the sensitivity of C13: the ids are reported as an
\* `arbitrary` array and the log is not.
resultWithArbitrary == [solution |-> solution, arbitrary |-> [k \in 1..Len(log) |-> log[k].variable]]

\* return { solution, log } (line 551)
solveResult == [solution |-> solution, log |-> log]

\* The guard of Round. Round is total under its guard and every outcome of it
\* changes pc or log, so ENABLED <<Round>>_vars is this state predicate.
RoundEnabled == pc = "solving" /\ loopCondition(solution, initialPoints)

\* solve is synchronous: once called it runs to its end. The first conjunct is
\* WF_vars(Round) with ENABLED <<Round>>_vars written out as RoundEnabled.
FairSpec ==
    /\ Spec
    /\ ([]<>(~RoundEnabled) \/ []<><<Round>>_vars)
    /\ WF_vars(Return)

-----------------------------------------------------------------------------
(* The locus operators on their own: each is applied once to operands drawn *)
(* from the gamuts below.                                                   *)

MaxDepth == 2

\* Gamuts that are not unions.
DeepAtoms ==
    {Plane, Void, PointGamut(P(3, 4)), CircleGamut(Circle(P(0, 0), L(5))),
     LineGamut(Line(P(0, 0), P(6, 0)))}

\* What a union is padded with: a void member, a point, an empty union.
Padding == {Void, PointGamut(P(3, -4)), UnionGamut(<<>>)}

\* The unions of one more level of nesting over the gamuts `inner`.
NestedOver(inner) ==
    inner \cup {UnionGamut(<<>>)}
          \cup {UnionGamut(<<n>>) : n \in inner}
          \cup {UnionGamut(<<m, n>>) : m \in Padding, n \in inner}
          \cup {UnionGamut(<<n, m>>) : m \in Padding, n \in inner}

\* Gamuts with unions nested up to `depth` levels, not simplified.
RECURSIVE Nested(_)
Nested(depth) == IF depth = 0 THEN DeepAtoms ELSE NestedOver(Nested(depth - 1))

\* Gamuts in the positions that matter to an intersection: circles that meet
\* in two points, touch, or share a centre; points on, near and off them;
\* lines that cross, touch and miss them and each other; unions of these.
FlatGamuts ==
    {Plane, Void,
     CircleGamut(Circle(P(0, 0), L(5))),
     CircleGamut(Circle(P(6, 0), L(5))),
     CircleGamut(Circle(P(10, 0), L(5))),
     CircleGamut(Circle(P(0, 0), 0)),
     CircleGamut(Circle(P(3, 0), L(2))),
     PointGamut(P(3, 4)),
     PointGamut(Pos(EPSILON, 0)),
     LineGamut(Line(P(0, 0), P(6, 0))),
     LineGamut(Line(P(3, -1), P(3, 1))),
     LineGamut(Line(P(0, 5), P(1, 5))),
     UnionGamut(<<PointGamut(P(3, 4)), PointGamut(P(3, -4))>>),
     UnionGamut(<<CircleGamut(Circle(P(0, 0), L(5))), LineGamut(Line(P(0, 0), P(6, 0)))>>),
     UnionGamut(<<LineGamut(Line(P(0, 0), P(6, 0))), LineGamut(Line(P(3, -1), P(3, 1)))>>),
     UnionGamut(<<LineGamut(Line(P(0, 0), P(6, 0))), LineGamut(Line(P(0, 5), P(1, 5)))>>),
     UnionGamut(<<CircleGamut(Circle(P(0, 0), L(5))), CircleGamut(Circle(P(6, 0), L(5)))>>)}

Queries == {P(1, 0), P(4, 4), P(0, 0)}

Operands(a, b, query) == [a |-> a, b |-> b, query |-> query]

\* A nested gamut against the plane and against void.
DeepCases == {Operands(g, e, q) : g \in Nested(MaxDepth), e \in {Plane, Void}, q \in {P(1, 0), P(4, 4)}}

PairCases == {Operands(g, h, q) : g \in FlatGamuts, h \in FlatGamuts, q \in Queries}

AlgebraInit ==
    /\ operands \in DeepCases \cup PairCases
    /\ outcome = NoOutcome
    /\ initialPoints = <<>>
    /\ constraints = <<>>
    /\ solution = <<>>
    /\ log = <<>>
    /\ remaining = <<>>
    /\ pc = "idle"
    /\ calls = 1
    /\ previous = NoResult
    /\ NoHost

\* simplifyGamut(a)
Simplify ==
    /\ outcome = NoOutcome
    /\ outcome' = [op |-> "simplifyGamut", value |-> simplifyGamut(operands.a)]
    /\ UNCHANGED <<initialPoints, constraints, solution, log, remaining, pc, calls, previous, operands>>
    /\ UNCHANGED hostVars

\* gamutNearest(a, query)
Nearest ==
    /\ outcome = NoOutcome
    /\ outcome' = [op |-> "gamutNearest", value |-> gamutNearest(operands.a, operands.query)]
    /\ UNCHANGED <<initialPoints, constraints, solution, log, remaining, pc, calls, previous, operands>>
    /\ UNCHANGED hostVars

\* gamutGamutIntersection(a, b, EPSILON) and gamutGamutIntersection(b, a, EPSILON)
Intersect ==
    /\ outcome = NoOutcome
    /\ outcome' = [op |-> "gamutGamutIntersection",
                   ab |-> gamutGamutIntersection(operands.a, operands.b, EPSILON),
                   ba |-> gamutGamutIntersection(operands.b, operands.a, EPSILON)]
    /\ UNCHANGED <<initialPoints, constraints, solution, log, remaining, pc, calls, previous, operands>>
    /\ UNCHANGED hostVars

\* gamutCircleIntersection(a, b.circle, EPSILON)
IntersectCircle ==
    /\ outcome = NoOutcome
    /\ operands.b.tag = "circle"
    /\ outcome' = [op |-> "gamutCircleIntersection",
                   value |-> gamutCircleIntersection(operands.a, operands.b.circle, EPSILON)]
    /\ UNCHANGED <<initialPoints, constraints, solution, log, remaining, pc, calls, previous, operands>>
    /\ UNCHANGED hostVars

\* The lines of a gamut that is a line or a union of lines.
linesOf(gamut) ==
    IF gamut.tag = "line" THEN <<gamut.line>>
    ELSE [i \in 1..Len(gamut.union) |-> gamut.union[i].line]

isLines(gamut) ==
    \/ gamut.tag = "line"
    \/ gamut.tag = "union" /\ \A i \in 1..Len(gamut.union) : gamut.union[i].tag = "line"

\* array.reverse()
Reverse(seq) == [i \in 1..Len(seq) |-> seq[Len(seq) + 1 - i]]

\* gamutLinesIntersection(a, lines, EPSILON), b giving the lines, and the
\* same for the lines listed in the opposite order
IntersectLines ==
    /\ outcome = NoOutcome
    /\ isLines(operands.b)
    /\ outcome' = [op |-> "gamutLinesIntersection",
                   value |-> gamutLinesIntersection(operands.a, linesOf(operands.b), EPSILON),
                   reversed |-> gamutLinesIntersection(operands.a, Reverse(linesOf(operands.b)), EPSILON)]
    /\ UNCHANGED <<initialPoints, constraints, solution, log, remaining, pc, calls, previous, operands>>
    /\ UNCHANGED hostVars

\* gamutFreedom(a) and gamutFreedom(b)
Measure ==
    /\ outcome = NoOutcome
    /\ outcome' = [op |-> "gamutFreedom",
                   a |-> gamutFreedom(operands.a),
                   b |-> gamutFreedom(operands.b)]
    /\ UNCHANGED <<initialPoints, constraints, solution, log, remaining, pc, calls, previous, operands>>
    /\ UNCHANGED hostVars

\* geometry.circleCircleIntersection(a.circle, b.circle, EPSILON)
IntersectCircles ==
    /\ outcome = NoOutcome
    /\ operands.a.tag = "circle"
    /\ operands.b.tag = "circle"
    /\ outcome' = [op |-> "circleCircleIntersection",
                   value |-> circleCircleIntersection(operands.a.circle, operands.b.circle, EPSILON)]
    /\ UNCHANGED <<initialPoints, constraints, solution, log, remaining, pc, calls, previous, operands>>
    /\ UNCHANGED hostVars

AlgebraNext ==
    \/ Simplify
    \/ Nearest
    \/ Intersect
    \/ IntersectCircle
    \/ IntersectLines
    \/ Measure
    \/ IntersectCircles

AlgebraSpec == AlgebraInit /\ [][AlgebraNext]_vars

-----------------------------------------------------------------------------
(* What the properties below read from a state *)

InitialIds == {initialPoints[i][1] : i \in 1..Len(initialPoints)}

InitialPosition(v) ==
    initialPoints[CHOOSE i \in 1..Len(initialPoints) : initialPoints[i][1] = v][2]

\* The running call has committed an id in its latest loop iteration, and
\* `remaining` is the array that iteration built.
RoundDone == remaining # <<>>

\* The log entry of the latest commit, its index in `remaining`, and the
\* Map `solution` as the latest iteration found it.
Committed == log[Len(log)]
CommittedIndex == CHOOSE i \in 1..Len(remaining) : remaining[i].variable = Committed.variable
SolvedBefore == [k \in DOMAIN solution \ {Committed.variable} |-> solution[k]]

IsVoid(localSolution) == localSolution.freedom = Freedom(0, 0)

\* The index of the loop iteration that committed v, and the Map `solution`
\* after the first k iterations.
LogIndex(v) == CHOOSE k \in 1..Len(log) : log[k].variable = v
SolutionAfter(k) == [v \in {log[j].variable : j \in 1..k} |-> log[LogIndex(v)].solution]

PairwiseDistinct(seq) == \A i, j \in 1..Len(seq) : i # j => seq[i] # seq[j]

\* The dependency of a constraint that was committed last.
LastCommitted(c) ==
    LET deps == constraintDependencies(c)
    IN deps[CHOOSE i \in 1..Len(deps) : \A j \in 1..Len(deps) : LogIndex(deps[j]) <= LogIndex(deps[i])]

NonVoidCommit(v) == ~IsVoid(log[LogIndex(v)].localSolution)

\* The semantics of the four constraints over the solved positions, within
\* EPSILON; a line through two coincident points has no direction and
\* constrains nothing.
Satisfied(c) ==
    CASE c.tag = "fixed" -> pointDistance(solution[c.a], c.position) <= EPSILON
      [] c.tag = "distance" ->
            Abs(pointDistance(solution[c.a], solution[c.b]) - Abs(c.distance)) <= EPSILON
      [] c.tag = "segment-distance" ->
            LET line == asVector(solution[c.b_p0], solution[c.b_p1])
                offset == pointSubtract(solution[c.a], solution[c.b_p0])
                across == pointDot(offset, Pos(-line.direction.y, line.direction.x))
            IN line.length = 0 \/ Abs(Abs(across) - Abs(c.distance)) <= EPSILON
      [] c.tag = "angle" ->
            LET la == asVector(solution[c.a_p0], solution[c.a_p1])
                lb == asVector(solution[c.b_p0], solution[c.b_p1])
            IN \/ la.length = 0
               \/ lb.length = 0
               \/ Abs(Abs(pointDot(la.direction, lb.direction)) - Abs(MathCos(c.angleRadians))) <= EPSILON

-----------------------------------------------------------------------------
(* The claims *)

\* C1: after solve returns, every constraint whose ids are pairwise distinct
\* and all in the initial map, and whose last-committed dependency was
\* committed from a non-void local solution, is satisfied by the solved
\* positions within EPSILON.
C1_ConstraintsSatisfied ==
    pc = "returned" =>
        \A i \in 1..Len(constraints) :
            LET c == constraints[i]
                deps == constraintDependencies(c)
            IN (/\ PairwiseDistinct(deps)
                /\ \A j \in 1..Len(deps) : deps[j] \in InitialIds
                /\ NonVoidCommit(LastCommitted(c))) => Satisfied(c)

\* C2: every call of solve leaves its loop, and the solution a call returns
\* maps exactly the ids of the initial map.
C2_Terminates ==
    /\ [](pc = "solving" => <>(pc # "solving"))
    /\ [](pc = "returned" => DOMAIN solution = InitialIds)

\* A call on three points and some constraints has returned after three commits.
C2_Witness ==
    /\ pc = "returned"
    /\ Len(initialPoints) = 3
    /\ Len(log) = 3
    /\ constraints # <<>>

\* C3: solve never raises, whatever its input.
C3_NeverRaises == pc # "raised"

\* C4: in a loop iteration in which some unsolved id has a non-void local
\* solution, the committed id is not void and no unsolved id has a smaller
\* non-zero freedom.
C4_SmallestNonZeroFreedom ==
    RoundDone =>
        LET nonVoid == {i \in 1..Len(remaining) : ~IsVoid(remaining[i].localSolution)}
        IN nonVoid # {} =>
            /\ ~IsVoid(Committed.localSolution)
            /\ \A i \in nonVoid :
                ~FreedomLess(remaining[i].localSolution.freedom, Committed.localSolution.freedom)

\* A void id precedes the committed one in the array, and another unsolved
\* id has a greater freedom than the committed one.
C4_Witness ==
    /\ RoundDone
    /\ \E i \in 1..Len(remaining) : i < CommittedIndex /\ IsVoid(remaining[i].localSolution)
    /\ \E i \in 1..Len(remaining) :
        FreedomLess(Committed.localSolution.freedom, remaining[i].localSolution.freedom)

\* C5: among the unsolved ids that share the smallest sort key of a loop
\* iteration, the first in the iteration order of the initial map is the one
\* committed.
C5_FirstOfTheTied ==
    RoundDone =>
        LET key(i) == constrainmentKey(remaining[i])
            smallest == {i \in 1..Len(remaining) :
                            \A j \in 1..Len(remaining) : compareKeys(key(i), key(j)) <= 0}
        IN /\ CommittedIndex \in smallest
           /\ \A i \in smallest : CommittedIndex <= i

\* Three unsolved ids, the first of a greater key than the other two, which
\* are tied.
C5_Witness ==
    /\ RoundDone
    /\ Len(remaining) = 3
    /\ CommittedIndex = 2
    /\ compareKeys(constrainmentKey(remaining[1]), constrainmentKey(remaining[2])) > 0
    /\ compareKeys(constrainmentKey(remaining[2]), constrainmentKey(remaining[3])) = 0

\* C6: if in some loop iteration every unsolved id has a void local
\* solution, every id unsolved at that point ends at its initial position.
C6_AllVoidKeepsInitial ==
    pc = "returned" =>
        \A k \in 1..Len(log) :
            LET entries == remainingOf(initialPoints, constraints, SolutionAfter(k - 1))
            IN (\A i \in 1..Len(entries) : IsVoid(entries[i].localSolution)) =>
                \A j \in k..Len(log) : solution[log[j].variable] = InitialPosition(log[j].variable)

\* C7: the position committed for the chosen id v is the nearest point of
\* v's intersected locus to initial[v], or initial[v] when there is none; an
\* id whose locus is the plane keeps its initial position.
C7_CommitsNearest ==
    RoundDone =>
        LET v == Committed.variable
            gamut == remaining[CommittedIndex].localSolution.intersection
            nearest == gamutNearest(gamut, InitialPosition(v))
        IN /\ solution[v] = IF nearest = Null THEN InitialPosition(v) ELSE nearest
           /\ Committed.solution = solution[v]
           /\ gamut = Plane => solution[v] = InitialPosition(v)

\* The committed id moved from its initial position onto a circle, a line or
\* a union.
C7_Witness ==
    /\ RoundDone
    /\ remaining[CommittedIndex].localSolution.intersection.tag \in {"circle", "line", "union"}
    /\ solution[Committed.variable] # InitialPosition(Committed.variable)

\* C8: in every loop iteration the local solution of an unsolved id v is
\* computed from exactly the constraints that mention v and whose other
\* dependencies are all solved, one locus for each, in their order.
C8_CertainConstraintsOnly ==
    RoundDone =>
        \A i \in 1..Len(remaining) :
            LET v == remaining[i].variable
                others(c) == {constraintDependencies(c)[j] : j \in 1..Len(constraintDependencies(c))} \ {v}
                mentions(c) == \E j \in 1..Len(constraintDependencies(c)) : constraintDependencies(c)[j] = v
                expected == SelectSeq(constraints,
                                LAMBDA c : mentions(c) /\ others(c) \subseteq DOMAIN SolvedBefore)
            IN /\ remaining[i].certain = expected
               /\ remaining[i].localSolution.constraints =
                    [j \in 1..Len(expected) |->
                        localConstraintToGamut(v, expected[j], SolvedBefore, EPSILON)]

\* An unsolved id is mentioned by two constraints, of which one has its
\* other dependency solved and one has not.
C8_Witness ==
    /\ RoundDone
    /\ \E i \in 1..Len(remaining) :
        /\ \E j \in 1..Len(remaining[i].certain) : remaining[i].certain[j].tag # "fixed"
        /\ \E j \in 1..Len(constraints) :
            /\ includes(constraintDependencies(constraints[j]), remaining[i].variable)
            /\ ~includes(remaining[i].certain, constraints[j])

FixedOf(v) == {i \in 1..Len(constraints) : constraints[i].tag = "fixed" /\ constraints[i].a = v}

FixedPosition(v) == constraints[CHOOSE i \in FixedOf(v) : TRUE].position

\* C9 as claimed: an id of the initial map with exactly one fixed constraint
\* ends at the position of that constraint, whatever else mentions it.
C9_FixedAlwaysHolds ==
    pc = "returned" =>
        \A v \in InitialIds : Cardinality(FixedOf(v)) = 1 => solution[v] = FixedPosition(v)

\* C9: an id of the initial map with exactly one fixed constraint that was
\* committed from a non-void local solution ends at the position of that
\* constraint.
C9_FixedHoldsUnlessVoid ==
    pc = "returned" =>
        \A v \in InitialIds :
            (Cardinality(FixedOf(v)) = 1 /\ NonVoidCommit(v)) => solution[v] = FixedPosition(v)

\* An id with one fixed constraint and a second certain constraint was
\* committed from a non-void local solution, away from its initial position.
C9_Witness ==
    /\ pc = "returned"
    /\ \E v \in InitialIds :
        /\ Cardinality(FixedOf(v)) = 1
        /\ NonVoidCommit(v)
        /\ Len(log[LogIndex(v)].localSolution.constraints) >= 2
        /\ solution[v] # InitialPosition(v)

C11_InputsUnchanged ==
    [][/\ initialPoints' = initialPoints
       /\ constraints' = constraints
       /\ calls' # calls =>
            /\ solution' = <<>>
            /\ log' = <<>>
            /\ previous' = [pc |-> pc, solution |-> solution, log |-> log]
       /\ calls' = calls => previous' = previous]_vars

\* The second call has committed to its own log, and the log the first call
\* returned still has all its entries.
C11_Witness ==
    /\ calls = 2
    /\ pc = "solving"
    /\ Len(log) = 1
    /\ Len(initialPoints) = 3
    /\ Len(constraints) >= 2
    /\ previous.pc = "returned"
    /\ Len(previous.log) = 3

\* C12: with an empty constraint list solve returns every id of the initial
\* map at its initial position.
C12_EmptyKeepsInitial ==
    (pc = "returned" /\ constraints = <<>>) =>
        /\ DOMAIN solveResult.solution = InitialIds
        /\ \A v \in InitialIds : solveResult.solution[v] = InitialPosition(v)

\* solve has returned three ids under an empty constraint list.
C12_Witness ==
    /\ pc = "returned"
    /\ constraints = <<>>
    /\ Cardinality(DOMAIN solveResult.solution) = 3

C14_VoidNotLogged ==
    pc = "returned" => \A k \in 1..Len(solveResult.log) : ~IsVoid(solveResult.log[k].localSolution)

\* The arguments are a triangle system: fixed(a, p), distance(a, b, d),
\* distance(a, c, d), distance(b, c, d) over the ids a, b, c in this order.
IsTriangle ==
    /\ Len(initialPoints) = 3
    /\ <<initialPoints[1][1], initialPoints[2][1], initialPoints[3][1]>> = <<"a", "b", "c">>
    /\ Len(constraints) = 4
    /\ constraints[1].tag = "fixed"
    /\ constraints[2].tag = "distance"
    /\ constraints = TriangleSystem(constraints[1].position, constraints[2].distance)

TriangleSide == constraints[2].distance

\* The log of a triangle: a from a point, then b from a circle, then c from
\* at most two points.
TriangleLog ==
    /\ Len(log) = 3
    /\ <<log[1].variable, log[2].variable, log[3].variable>> = <<"a", "b", "c">>
    /\ log[1].localSolution.freedom = Freedom(0, 1)
    /\ log[2].localSolution.freedom = Freedom(1, 0)
    /\ log[2].localSolution.intersection.tag = "circle"
    /\ ~FreedomLess(Freedom(0, 2), log[3].localSolution.freedom)

Canonical(gamut) ==
    gamut.tag = "union" =>
        /\ Len(gamut.union) >= 2
        /\ \A i \in 1..Len(gamut.union) : gamut.union[i].tag \notin {"union", "void"}

\* Two results of gamutNearest agree: both none, or within EPSILON.
SameNearest(left, right) ==
    IF left = Null \/ right = Null THEN left = right
    ELSE pointDistance(left, right) <= EPSILON

\* C16: the two orders of a pairwise intersection have the same outcome: the
\* nearest positions to the query are both none or within EPSILON of each
\* other, and one intersection is empty exactly when the other is.
C16_Commutative ==
    outcome.op = "gamutGamutIntersection" =>
        /\ SameNearest(gamutNearest(outcome.ab, operands.query), gamutNearest(outcome.ba, operands.query))
        /\ gamutEmpty(outcome.ab) <=> gamutEmpty(outcome.ba)

\* C17: what an intersection operator returns for gamuts in canonical form
\* is void or in canonical form.
C17_IntersectionsSimplified ==
    (Canonical(operands.a) /\ Canonical(operands.b)) =>
        /\ outcome.op \in {"gamutCircleIntersection", "gamutLinesIntersection"} => Canonical(outcome.value)
        /\ outcome.op = "gamutGamutIntersection" => Canonical(outcome.ab) /\ Canonical(outcome.ba)

\* C18: simplifyGamut returns a gamut in canonical form, which it leaves as
\* it is when applied again.
C18_SimplifyCanonical ==
    outcome.op = "simplifyGamut" =>
        /\ Canonical(outcome.value)
        /\ simplifyGamut(outcome.value) = outcome.value

\* Unions nested two deep, with a void member and an empty union among the
\* members, were simplified to a union.
C18_Witness ==
    /\ outcome.op = "simplifyGamut"
    /\ outcome.value.tag = "union"
    /\ operands.a.tag = "union"
    /\ \E i \in 1..Len(operands.a.union) :
        /\ operands.a.union[i].tag = "union"
        /\ \E j \in 1..Len(operands.a.union[i].union) :
            operands.a.union[i].union[j] \in {Void, UnionGamut(<<>>)}

\* C19: the plane is the identity of the pairwise intersection and void
\* absorbs, on either side.
C19_PlaneAndVoid ==
    outcome.op = "gamutGamutIntersection" =>
        /\ operands.b = Plane => outcome.ab = operands.a /\ outcome.ba = operands.a
        /\ operands.a = Plane => outcome.ab = operands.b /\ outcome.ba = operands.b
        /\ (operands.a = Void \/ operands.b = Void) => outcome.ab = Void /\ outcome.ba = Void

\* A union with a nested union among its members was intersected with the
\* plane, either way round.
C19_Witness ==
    /\ outcome.op = "gamutGamutIntersection"
    /\ operands.b = Plane
    /\ operands.a.tag = "union"
    /\ \E i \in 1..Len(operands.a.union) : operands.a.union[i].tag = "union"
    /\ outcome.ab = operands.a
    /\ outcome.ba = operands.a

\* C20: gamutNearest returns none exactly when the gamut is empty.
C20_NoneIffEmpty ==
    outcome.op = "gamutNearest" => (outcome.value = Null <=> gamutEmpty(operands.a))

\* gamutNearest returned none for a union, not simplified, all of whose
\* members are void or empty unions.
C20_Witness ==
    /\ outcome.op = "gamutNearest"
    /\ outcome.value = Null
    /\ operands.a.tag = "union"
    /\ Len(operands.a.union) = 2
    /\ \E i \in 1..2 : operands.a.union[i].tag = "union"

\* How many members with one of the tags `tags` a gamut has, the members of
\* its unions counted at every depth.
RECURSIVE Members(_, _)
RECURSIVE MembersOfAll(_, _)
MembersOfAll(elements, tags) ==
    IF elements = <<>> THEN 0
    ELSE Members(Head(elements), tags) + MembersOfAll(Tail(elements), tags)

Members(gamut, tags) ==
    IF gamut.tag = "union" THEN MembersOfAll(gamut.union, tags)
    ELSE IF gamut.tag \in tags THEN 1 ELSE 0

\* C21: the freedom of a gamut is F * F for each plane, F for each line and
\* circle and 1 for each point among its members, void counting nothing; so
\* a gamut of points only has a freedom below that of a gamut with a line or
\* a circle and no plane, which is below the freedom of the plane.
C21_FreedomRanks ==
    outcome.op = "gamutFreedom" =>
        /\ outcome.a = Freedom(ONE_DIMENSIONAL_FREEDOM * Members(operands.a, {"plane"})
                                    + Members(operands.a, {"line", "circle"}),
                               Members(operands.a, {"point"}))
        /\ (/\ Members(operands.a, {"plane", "line", "circle"}) = 0
            /\ Members(operands.b, {"line", "circle"}) > 0
            /\ Members(operands.b, {"plane"}) = 0) =>
                /\ FreedomLess(outcome.a, outcome.b)
                /\ FreedomLess(outcome.b, gamutFreedom(Plane))

\* The freedom of a union of two points was measured against that of a union
\* of a circle and a line.
C21_Witness ==
    /\ outcome.op = "gamutFreedom"
    /\ outcome.a = Freedom(0, 2)
    /\ outcome.b = Freedom(2, 0)

\* C27: the freedom of a gamut is 0 exactly when the gamut is empty.
C27_ZeroIffEmpty ==
    outcome.op = "gamutFreedom" =>
        /\ outcome.a = Freedom(0, 0) <=> gamutEmpty(operands.a)
        /\ outcome.b = Freedom(0, 0) <=> gamutEmpty(operands.b)

\* The freedom 0 was measured for a union, not simplified, with a union
\* among its two members.
C27_Witness ==
    /\ outcome.op = "gamutFreedom"
    /\ outcome.a = Freedom(0, 0)
    /\ operands.a.tag = "union"
    /\ Len(operands.a.union) = 2
    /\ \E i \in 1..2 : operands.a.union[i].tag = "union"

\* The members of a gamut as a set: none for void, the gamut itself when it
\* is not a union.
MemberSet(gamut) ==
    IF gamut.tag = "void" THEN {}
    ELSE IF gamut.tag = "union" THEN {gamut.union[i] : i \in 1..Len(gamut.union)}
    ELSE {gamut}

OnCircle(position, circle) ==
    Abs(pointDistance(position, circle.center) - Abs(circle.radius)) <= EPSILON

\* C23: every point circleCircleIntersection returns lies on both circles
\* within EPSILON.
C23_PointsOnBothCircles ==
    (outcome.op = "circleCircleIntersection" /\ outcome.value.tag = "points") =>
        \A i \in 1..Len(outcome.value.points) :
            /\ OnCircle(outcome.value.points[i], operands.a.circle)
            /\ OnCircle(outcome.value.points[i], operands.b.circle)

FreedomAtMost(f, g) == ~FreedomLess(g, f)

\* C29: the freedom of a pairwise intersection is at most the freedom of
\* either operand.
C29_FreedomNotIncreased ==
    outcome.op = "gamutGamutIntersection" =>
        /\ FreedomAtMost(gamutFreedom(outcome.ab), gamutFreedom(operands.a))
        /\ FreedomAtMost(gamutFreedom(outcome.ab), gamutFreedom(operands.b))

\* C29: the freedom of the pairwise intersection of two gamuts neither of
\* which is a union is at most the freedom of either.
C29_AtomsNotIncreased ==
    (outcome.op = "gamutGamutIntersection" /\ operands.a.tag # "union" /\ operands.b.tag # "union") =>
        /\ FreedomAtMost(gamutFreedom(outcome.ab), gamutFreedom(operands.a))
        /\ FreedomAtMost(gamutFreedom(outcome.ab), gamutFreedom(operands.b))
        /\ FreedomAtMost(gamutFreedom(outcome.ba), gamutFreedom(operands.a))
        /\ FreedomAtMost(gamutFreedom(outcome.ba), gamutFreedom(operands.b))

\* Two circles were intersected in two points.
C29_Witness ==
    /\ outcome.op = "gamutGamutIntersection"
    /\ operands.a.tag = "circle"
    /\ operands.b.tag = "circle"
    /\ gamutFreedom(outcome.ab) = Freedom(0, 2)

\* The perpendicular distance from a position to the line through two others.
DistanceToLine(position, from, to) ==
    pointDistance(position, nearestToLine(from, to, position))

\* C24: when the locus of an endpoint v of the segment of a certain
\* segment-distance(a, (p0, p1), d) is a pair of lines, with A the solved
\* position of a, B that of the other endpoint and 0 < d < |AB|, the second
\* point of either line lies on a line through B at distance d from A.
C24_EndpointLocus ==
    RoundDone =>
        \A i \in 1..Len(remaining) : \A j \in 1..Len(remaining[i].certain) :
            LET v == remaining[i].variable
                c == remaining[i].certain[j]
                locus == remaining[i].localSolution.constraints[j]
                A == SolvedBefore[c.a]
                B == SolvedBefore[IF v = c.b_p0 THEN c.b_p1 ELSE c.b_p0]
            IN (/\ c.tag = "segment-distance"
                /\ v # c.a
                /\ PairwiseDistinct(constraintDependencies(c))
                /\ c.distance > 0
                /\ c.distance < pointDistance(A, B)
                /\ locus.tag = "union") =>
                    \A k \in 1..Len(locus.union) :
                        Abs(DistanceToLine(A, B, locus.union[k].line.to) - c.distance) <= EPSILON

\* C28: every iteration of the while loop of solve commits exactly one id
\* that was unsolved, appends it to the log and leaves every committed
\* position as it was; when the loop is left, it has run once for every id
\* of the initial map and the variables of the log are pairwise distinct.
C28_OneIdPerRound ==
    [][/\ (pc = "solving" /\ pc' # "returned") =>
            \E id \in {initialPoints[i][1] : i \in 1..Len(initialPoints)} \ DOMAIN solution :
                /\ DOMAIN solution' = DOMAIN solution \cup {id}
                /\ \A k \in DOMAIN solution : solution'[k] = solution[k]
                /\ Len(log') = Len(log) + 1
                /\ log'[Len(log')].variable = id
       /\ (pc = "solving" /\ pc' = "returned") =>
            /\ Len(log) = Len(initialPoints)
            /\ \A j, k \in 1..Len(log) : log[j].variable = log[k].variable => j = k
      ]_vars

-----------------------------------------------------------------------------
(* The host (src/main.ts): the board of figures and the handlers that edit  *)
(* it.  A Figure object is an index of `figures`; 0 stands for null and for *)
(* undefined.  Which figure the mouse hovers is an input of the handlers.   *)

NoFigure == 0

PointFigure(position) == [class |-> "PointFigure", position |-> position]
SegmentFigure(from, to) == [class |-> "SegmentFigure", from |-> from, to |-> to]
DimensionPointDistanceFigure(from, to, distance) ==
    [class |-> "DimensionPointDistanceFigure", from |-> from, to |-> to, distance |-> distance]
DimensionPointSegmentDistanceFigure(a, b, distance) ==
    [class |-> "DimensionPointSegmentDistanceFigure", a |-> a, b |-> b, distance |-> distance]
DimensionSegmentAngleFigure(from, to, angleDegrees) ==
    [class |-> "DimensionSegmentAngleFigure", from |-> from, to |-> to, angleDegrees |-> angleDegrees]
ConstraintFixedAngle(from, to, angleDegrees) ==
    [class |-> "ConstraintFixedAngle", from |-> from, to |-> to, angleDegrees |-> angleDegrees]

\* figure instanceof figures.<class> for the object `figure` of the heap `objects`
instanceof(objects, figure, class) ==
    figure \in DOMAIN objects /\ objects[figure].class = class

\* figure.dependsOn()
dependsOn(objects, figure) ==
    CASE objects[figure].class = "PointFigure" -> <<>>
      [] objects[figure].class = "DimensionPointSegmentDistanceFigure" ->
            <<objects[figure].a, objects[figure].b>>
      [] OTHER -> <<objects[figure].from, objects[figure].to>>

\* The array dependers.get(dependency) after the first `upTo` figures of the board.
RECURSIVE dependersOf(_, _, _, _)
dependersOf(objects, board, dependency, upTo) ==
    IF upTo = 0 THEN <<>>
    ELSE dependersOf(objects, board, dependency, upTo - 1)
         \o [k \in 1..Len(SelectSeq(dependsOn(objects, board[upTo]), LAMBDA d : d = dependency)) |-> board[upTo]]

\* queue.add(depender) for every element of `dependers`, in order
RECURSIVE addAll(_, _)
addAll(queue, dependers) ==
    IF dependers = <<>> THEN queue
    ELSE addAll(IF includes(queue, Head(dependers)) THEN queue ELSE Append(queue, Head(dependers)),
                Tail(dependers))

\* for (const element of queue) { ... queue.add(depender) ... }: the Set,
\* in insertion order, once the iteration has passed its element `at`.
RECURSIVE queueFrom(_, _, _, _)
queueFrom(objects, board, queue, at) ==
    IF at > Len(queue) THEN queue
    ELSE queueFrom(objects, board,
                   addAll(queue, dependersOf(objects, board, queue[at], Len(board))), at + 1)

\* data.inPlaceFilter(array, predicate), the predicate as a function on the elements
inPlaceFilter(array, predicate) == SelectSeq(array, LAMBDA element : predicate[element])

\* A faulty deleteFigure, for the sensitivity of C26: only the figures that
\* depend on the deleted one directly are removed with it.
deleteDirectOnly(objects, board, figure) ==
    LET queue == addAll(<<figure>>, dependersOf(objects, board, figure, Len(board)))
    IN inPlaceFilter(board, [f \in {board[i] : i \in 1..Len(board)} |-> ~includes(queue, f)])

\* deleteFigure(figure): the array boardFigures it leaves
deleteFigure(objects, board, figure) ==
    LET queue == queueFrom(objects, board, <<figure>>, 1)
    IN inPlaceFilter(board, [f \in {board[i] : i \in 1..Len(board)} |-> ~includes(queue, f)])

\* The figures the mouse can hover: getMouseHovering only returns figures of
\* the board, and a ConstraintFixedAngle is at distance Infinity.
Hoverable(objects, board) ==
    {board[i] : i \in 1..Len(board)} \ {f \in DOMAIN objects : objects[f].class = "ConstraintFixedAngle"}

\* How many Figure objects the host creates
MaxFigures == 4

\* Where the mouse puts a new point
MousePositions == {P(1, 1), P(1, 4)}

\* The null of parseLengthMm, among numbers
NotALength == -1

\* parseLengthMm(msg), for the number the user typed; a negative number
\* stands for every answer that is refused (and for a cancelled prompt)
parseLengthMm(msg) == IF msg < 0 THEN NotALength ELSE msg

\* What the user answers to the prompt of edit()
LengthAnswers == {-1, 0, L(3)}
AngleAnswers == {-1, 90}

BoardInit ==
    /\ figures = <<>>
    /\ boardFigures = <<>>
    /\ cursorMode = [tag |-> "lines", from |-> NoFigure]
    /\ lastSerialization = NeverSerialized
    /\ pointByName = <<>>
    /\ removal = NoRemoval
    /\ initialPoints = <<>>
    /\ constraints = <<>>
    /\ solution = <<>>
    /\ log = <<>>
    /\ remaining = <<>>
    /\ pc = "idle"
    /\ calls = 0
    /\ previous = NoResult
    /\ operands = NoOperands
    /\ outcome = NoOutcome

solveVars == <<initialPoints, constraints, solution, log, remaining, pc, calls, previous, operands, outcome>>

\* modeChange(): one of the four radio buttons is checked
ModeChange ==
    /\ \E tag \in {"move", "lines", "dimension", "orthogonal"} :
        cursorMode' =
            CASE tag = "move" -> [tag |-> "move", selected |-> NoFigure, dragging |-> NoFigure]
              [] tag = "lines" -> [tag |-> "lines", from |-> NoFigure]
              [] tag = "dimension" -> [tag |-> "dimension", constraining |-> <<>>]
              [] tag = "orthogonal" -> [tag |-> "orthogonal"]
    /\ UNCHANGED <<figures, boardFigures, lastSerialization, pointByName, removal>>
    /\ UNCHANGED solveVars

\* The incident constraints chooseOrCreatePoint pushes for the new point `out`
incidentConstraints(out, incident) ==
    [k \in 1..Len(incident) |-> DimensionPointSegmentDistanceFigure(out, incident[k], 0)]

\* createSegment(from, to): the existing segment between the two points, or 0
existingSegment(objects, board, from, to) ==
    LET found == SelectSeq(board, LAMBDA f :
                    /\ objects[f].class = "SegmentFigure"
                    /\ \/ (objects[f].from = from /\ objects[f].to = to)
                       \/ (objects[f].from = to /\ objects[f].to = from))
    IN IF found = <<>> THEN NoFigure ELSE found[1]

\* hovering[0] and hovering[1] in choosePoint when no point is nearest: no
\* segment, one segment, or two segments that cross under the mouse
HoveredSegments(objects, board) ==
    LET segments == {f \in Hoverable(objects, board) : objects[f].class = "SegmentFigure"}
    IN {<<>>} \cup {<<s>> : s \in segments}
              \cup {pair \in segments \X segments : pair[1] # pair[2]}

\* mousedown in the mode "lines": button 2 cancels the draw; button 0
\* chooses the hovered point or creates one (chooseOrCreatePoint), on the
\* hovered segments if there are any, and joins it to `from` (createSegment).
LinesMouseDown ==
    /\ cursorMode.tag = "lines"
    /\ \/ /\ cursorMode' = [tag |-> "lines", from |-> NoFigure]
          /\ UNCHANGED <<figures, boardFigures>>
       \/ \E hovering \in {f \in Hoverable(figures, boardFigures) : figures[f].class = "PointFigure"} :
            /\ cursorMode' = [tag |-> "lines", from |-> hovering]
            /\ IF cursorMode.from = NoFigure
                  \/ existingSegment(figures, boardFigures, cursorMode.from, hovering) # NoFigure
               THEN UNCHANGED <<figures, boardFigures>>
               ELSE /\ Len(figures) < MaxFigures
                    /\ figures' = Append(figures, SegmentFigure(cursorMode.from, hovering))
                    /\ boardFigures' = Append(boardFigures, Len(figures) + 1)
       \/ \E world \in MousePositions :
          \E incident \in HoveredSegments(figures, boardFigures) :
            LET out == Len(figures) + 1
                created == <<PointFigure(world)>> \o incidentConstraints(out, incident)
                segment == IF cursorMode.from = NoFigure THEN <<>>
                           ELSE <<SegmentFigure(cursorMode.from, out)>>
            IN /\ Len(figures) + Len(created) + Len(segment) <= MaxFigures
               /\ figures' = figures \o created \o segment
               /\ boardFigures' = boardFigures
                                  \o [k \in 1..(Len(created) + Len(segment)) |-> Len(figures) + k]
               /\ cursorMode' = [tag |-> "lines", from |-> out]
    /\ UNCHANGED <<lastSerialization, pointByName, removal>>
    /\ UNCHANGED solveVars

\* convertSelectedFiguresToDimensionType(), with null as the tag "none"
convertSelectedFiguresToDimensionType(objects, constraining) ==
    IF Len(constraining) = 1
    THEN IF objects[constraining[1]].class = "SegmentFigure"
         THEN [tag |-> "point-point-distance",
               from |-> objects[constraining[1]].from, to |-> objects[constraining[1]].to]
         ELSE [tag |-> "none"]
    ELSE IF Len(constraining) = 2
    THEN LET a == constraining[1]
             b == constraining[2]
         IN CASE objects[a].class = "PointFigure" /\ objects[b].class = "PointFigure" ->
                    [tag |-> "point-point-distance", from |-> a, to |-> b]
              [] objects[a].class = "SegmentFigure" /\ objects[b].class = "SegmentFigure" ->
                    [tag |-> "segment-angle", from |-> a, to |-> b]
              [] objects[a].class = "PointFigure" /\ objects[b].class = "SegmentFigure" ->
                    [tag |-> "point-segment-distance", point |-> a, segment |-> b]
              [] objects[a].class = "SegmentFigure" /\ objects[b].class = "PointFigure" ->
                    [tag |-> "point-segment-distance", point |-> b, segment |-> a]
              [] OTHER -> [tag |-> "none"]
    ELSE [tag |-> "none"]

\* The dimension the three place... functions push when edit() accepts the
\* answer `msg` to the prompt, as an array of no or one figure.
placedDimension(selected, msg) ==
    LET asked == parseLengthMm(msg)
    IN
    CASE selected.tag = "point-point-distance" ->
            IF asked # NotALength /\ asked > 0
            THEN <<DimensionPointDistanceFigure(selected.from, selected.to, asked)>> ELSE <<>>
      [] selected.tag = "point-segment-distance" ->
            IF asked # NotALength
            THEN <<DimensionPointSegmentDistanceFigure(selected.point, selected.segment, asked)>> ELSE <<>>
      [] selected.tag = "segment-angle" ->
            IF asked # NotALength /\ 0 <= asked /\ asked < 360
            THEN <<DimensionSegmentAngleFigure(selected.from, selected.to, asked)>> ELSE <<>>
      [] OTHER -> <<>>

\* Array.prototype.splice(index, 1)
splice(seq, index) == SubSeq(seq, 1, index - 1) \o SubSeq(seq, index + 1, Len(seq))

\* mousedown in the mode "dimension": button 2 cancels; button 0 is
\* dimensioningClick on the hovered figure, or on none.
DimensionMouseDown ==
    /\ cursorMode.tag = "dimension"
    /\ \/ /\ cursorMode' = [tag |-> "dimension", constraining |-> <<>>]
          /\ UNCHANGED <<figures, boardFigures>>
       \/ \E hovering \in Hoverable(figures, boardFigures) :
            /\ cursorMode' = [tag |-> "dimension", constraining |->
                    LET constraining == cursorMode.constraining
                    IN IF Len(constraining) = 0 THEN <<hovering>>
                       ELSE IF includes(constraining, hovering)
                       THEN splice(constraining, CHOOSE i \in 1..Len(constraining) :
                                /\ constraining[i] = hovering
                                /\ \A j \in 1..(i - 1) : constraining[j] # hovering)
                       ELSE IF Len(constraining) = 1
                       THEN IF figures[hovering].class \in {"PointFigure", "SegmentFigure"}
                            THEN IF figures[constraining[1]].class \in {"PointFigure", "SegmentFigure"}
                                 THEN Append(constraining, hovering) ELSE constraining
                            ELSE <<>>
                       ELSE IF Len(constraining) = 2 THEN <<>>
                       ELSE constraining]
            /\ UNCHANGED <<figures, boardFigures>>
       \/ /\ Len(cursorMode.constraining) > 0
          /\ \E selected \in {convertSelectedFiguresToDimensionType(figures, cursorMode.constraining)} :
             \E msg \in IF selected.tag = "segment-angle" THEN AngleAnswers ELSE LengthAnswers :
             \E placed \in {placedDimension(selected, msg)} :
                /\ Len(figures) + Len(placed) <= MaxFigures
                /\ figures' = figures \o placed
                /\ boardFigures' = boardFigures \o [k \in 1..Len(placed) |-> Len(figures) + k]
                /\ cursorMode' = [tag |-> "dimension", constraining |-> <<>>]
    /\ UNCHANGED <<lastSerialization, pointByName, removal>>
    /\ UNCHANGED solveVars

\* The loop of the mode "orthogonal" over boardFigures, which deleteFigure
\* filters in place while the loop runs: the board, whether a figure was
\* deleted and the latest call of deleteFigure, from index `at` on.
RECURSIVE deleteFixedAngles(_, _, _, _, _)
deleteFixedAngles(objects, hovering, at, board, before) ==
    IF at > Len(board) THEN [board |-> board, before |-> before]
    ELSE LET figure == board[at]
             samePoints ==
                \/ (objects[figure].from = objects[hovering].from /\ objects[figure].to = objects[hovering].to)
                \/ (objects[figure].from = objects[hovering].to /\ objects[figure].to = objects[hovering].from)
         IN IF objects[figure].class = "ConstraintFixedAngle" /\ samePoints
            THEN deleteFixedAngles(objects, hovering, at + 1, deleteFigure(objects, board, figure),
                                   <<[figure |-> figure, before |-> board]>>)
            ELSE deleteFixedAngles(objects, hovering, at + 1, board, before)

\* mousedown in the mode "orthogonal" on a segment: toggle its horizontal
\* or vertical constraint.
OrthogonalMouseDown ==
    /\ cursorMode.tag = "orthogonal"
    /\ \E hovering \in {f \in Hoverable(figures, boardFigures) : figures[f].class = "SegmentFigure"} :
        LET direction == pointSubtract(figures[figures[hovering].to].position,
                                       figures[figures[hovering].from].position)
            orthogonalAngle == IF Abs(direction.x) >= Abs(direction.y) THEN 0 ELSE 90
        IN IF direction.x = 0 /\ direction.y = 0
           THEN UNCHANGED <<figures, boardFigures, removal>>
           ELSE \E loop \in {deleteFixedAngles(figures, hovering, 1, boardFigures, <<>>)} :
                    IF loop.before # <<>>
                    THEN /\ boardFigures' = loop.board
                         /\ removal' = loop.before[1]
                         /\ UNCHANGED figures
                    ELSE /\ Len(figures) < MaxFigures
                         /\ figures' = Append(figures, ConstraintFixedAngle(
                                figures[hovering].from, figures[hovering].to, orthogonalAngle))
                         /\ boardFigures' = Append(boardFigures, Len(figures) + 1)
                         /\ UNCHANGED removal
    /\ UNCHANGED <<cursorMode, lastSerialization, pointByName>>
    /\ UNCHANGED solveVars

\* mousedown in the mode "move": button 2 cancels the selection; button 0
\* selects the hovered figure and starts to drag a point or a dimension.
MoveMouseDown ==
    /\ cursorMode.tag = "move"
    /\ \/ cursorMode' = [cursorMode EXCEPT !.selected = NoFigure]
       \/ \E hovering \in Hoverable(figures, boardFigures) \cup {NoFigure} :
            cursorMode' = [tag |-> "move", selected |-> hovering,
                           dragging |-> IF hovering # NoFigure
                                           /\ figures[hovering].class # "SegmentFigure"
                                        THEN hovering ELSE cursorMode.dragging]
    /\ UNCHANGED <<figures, boardFigures, lastSerialization, pointByName, removal>>
    /\ UNCHANGED solveVars

\* moveDragged(cursorScreen): the dragged point follows the mouse once the
\* mouse has left the fence; the label of a dragged dimension is not modelled.
moveDragged(objects, mode, world) ==
    IF mode.tag = "move" /\ mode.dragging # NoFigure /\ objects[mode.dragging].class = "PointFigure"
    THEN [objects EXCEPT ![mode.dragging].position = world]
    ELSE objects

\* mouseup in the mode "move": the drag ends where the mouse is
MoveMouseUp ==
    /\ cursorMode.tag = "move"
    /\ \/ UNCHANGED figures
       \/ \E world \in MousePositions : figures' = moveDragged(figures, cursorMode, world)
    /\ cursorMode' = [cursorMode EXCEPT !.dragging = NoFigure]
    /\ UNCHANGED <<boardFigures, lastSerialization, pointByName, removal>>
    /\ UNCHANGED solveVars

\* keydown of Delete or Backspace: deleteFigure(cursorMode.selected)
DeleteKey ==
    /\ cursorMode.tag = "move"
    /\ cursorMode.selected # NoFigure
    /\ removal' = [figure |-> cursorMode.selected, before |-> boardFigures]
    /\ boardFigures' = deleteFigure(figures, boardFigures, cursorMode.selected)
    /\ UNCHANGED <<figures, cursorMode, lastSerialization, pointByName>>
    /\ UNCHANGED solveVars

BoardNext ==
    \/ ModeChange \/ LinesMouseDown \/ DimensionMouseDown \/ OrthogonalMouseDown
    \/ MoveMouseDown \/ MoveMouseUp \/ DeleteKey

BoardSpec == BoardInit /\ [][BoardNext]_vars

\* g depends on f through at most `steps` applications of dependsOn
RECURSIVE DependsWithin(_, _, _, _)
DependsWithin(objects, g, f, steps) ==
    /\ steps > 0
    /\ \E d \in {dependsOn(objects, g)[k] : k \in 1..Len(dependsOn(objects, g))} :
        d = f \/ DependsWithin(objects, d, f, steps - 1)

\* g depends on f, directly or transitively
DependsOnTransitively(objects, g, f) == DependsWithin(objects, g, f, Len(objects))

\* C26: after deleteFigure(f) the board holds neither f nor a figure that
\* depends, directly or transitively, on a figure the call removed, and the
\* figures that do not depend on f transitively are all still on the board,
\* in the order they had.
C26_DeleteFigure ==
    [][removal' # removal =>
        LET f == removal'.figure
            before == removal'.before
            after == boardFigures'
            removed == ({before[i] : i \in 1..Len(before)} \ {after[i] : i \in 1..Len(after)}) \cup {f}
        IN /\ ~includes(after, f)
           /\ \A i \in 1..Len(after) : \A r \in removed :
                ~DependsOnTransitively(figures', after[i], r)
           /\ after = SelectSeq(before, LAMBDA g : g # f /\ ~DependsOnTransitively(figures', g, f))
      ]_vars

\* A figure was deleted that another depended on only through a third, and
\* figures that do not depend on it were left on the board.
C26_Witness ==
    /\ removal # NoRemoval
    /\ boardFigures # <<>>
    /\ \E i \in 1..Len(removal.before) :
        LET g == removal.before[i]
        IN /\ DependsOnTransitively(figures, g, removal.figure)
           /\ ~includes(dependsOn(figures, g), removal.figure)
           /\ ~includes(boardFigures, g)

-----------------------------------------------------------------------------
(* The host's frames: every frame rerender calls recalculateConstraints,    *)
(* which names the points, builds the constraints and, when the board's     *)
(* serialization is not the one last solved, solves and moves the points.   *)
(* The checkbox "enforce-constraints" is checked.                           *)

\* "p" + pointName.size
PointNames == <<"p0", "p1", "p2", "p3", "p4", "p5">>

\* The point figures whose names the loop of recalculateConstraints asks for
\* at `figure`, in the order of the calls of getVariableName.
namedPoints(objects, figure) ==
    CASE objects[figure].class \in {"DimensionPointDistanceFigure", "ConstraintFixedAngle"} ->
            <<objects[figure].from, objects[figure].to>>
      [] objects[figure].class = "DimensionSegmentAngleFigure" ->
            <<objects[objects[figure].from].from, objects[objects[figure].from].to,
              objects[objects[figure].to].from, objects[objects[figure].to].to>>
      [] objects[figure].class = "DimensionPointSegmentDistanceFigure" ->
            <<objects[figure].a, objects[objects[figure].b].from, objects[objects[figure].b].to>>
      [] OTHER -> <<>>

\* The keys of pointName, in insertion order, after the first `upTo` figures
\* of the board: getVariableName names a point when it is first asked for.
RECURSIVE pointNamesAfter(_, _, _, _)
pointNamesAfter(objects, board, first, upTo) ==
    IF upTo = 0 THEN first
    ELSE addAll(pointNamesAfter(objects, board, first, upTo - 1), namedPoints(objects, board[upTo]))

\* A faulty registration, for the sensitivity of C25: the dragged point is
\* not named before the loop over the board.
draggedNotFirst(objects, mode) == <<>>

\* if (cursorMode.tag === "move" && cursorMode.dragging !== null) ...
\* getVariableName(cursorMode.dragging.figure)
draggedFirst(objects, mode) ==
    IF mode.tag = "move" /\ mode.dragging # NoFigure /\ objects[mode.dragging].class = "PointFigure"
    THEN <<mode.dragging>> ELSE <<>>

\* The keys of pointName when recalculateConstraints has built its constraints
pointName(objects, board, mode) ==
    pointNamesAfter(objects, board, draggedFirst(objects, mode), Len(board))

\* The index of an element in an array that holds it
IndexOf(seq, e) == CHOOSE i \in 1..Len(seq) : seq[i] = e /\ \A j \in 1..(i - 1) : seq[j] # e

\* getVariableName(pointFigure), once the point is named
getVariableName(names, pointFigure) == PointNames[IndexOf(names, pointFigure)]

\* The Map `variables`, as its entries in insertion order
hostVariables(objects, names) ==
    << <<"origin", Pos(0, 0)>>, <<"x-axis", Pos(Unit, 0)>> >>
    \o [k \in 1..Len(names) |-> <<PointNames[k], objects[names[k]].position>>]

\* Math.PI and angleDegrees * Math.PI / 180
MathPI == 31416
toRadians(angleDegrees) == (angleDegrees * MathPI) \div 180

\* The constraint the loop of recalculateConstraints pushes for a figure, as
\* an array of no or one constraint
hostConstraint(objects, names, figure) ==
    CASE objects[figure].class = "DimensionPointDistanceFigure" ->
            <<DistanceConstraint(getVariableName(names, objects[figure].from),
                                 getVariableName(names, objects[figure].to),
                                 objects[figure].distance)>>
      [] objects[figure].class = "DimensionSegmentAngleFigure" ->
            <<AngleContraint(
                Pair(getVariableName(names, objects[objects[figure].from].from),
                     getVariableName(names, objects[objects[figure].from].to)),
                Pair(getVariableName(names, objects[objects[figure].to].from),
                     getVariableName(names, objects[objects[figure].to].to)),
                toRadians(objects[figure].angleDegrees))>>
      [] objects[figure].class = "DimensionPointSegmentDistanceFigure" ->
            <<PointSegmentDistanceConstraint(
                getVariableName(names, objects[figure].a),
                Pair(getVariableName(names, objects[objects[figure].b].from),
                     getVariableName(names, objects[objects[figure].b].to)),
                objects[figure].distance)>>
      [] objects[figure].class = "ConstraintFixedAngle" ->
            <<AngleContraint(
                Pair("origin", "x-axis"),
                Pair(getVariableName(names, objects[figure].from),
                     getVariableName(names, objects[figure].to)),
                toRadians(objects[figure].angleDegrees))>>
      [] OTHER -> <<>>

RECURSIVE boardConstraints(_, _, _, _)
boardConstraints(objects, board, names, upTo) ==
    IF upTo = 0 THEN <<>>
    ELSE boardConstraints(objects, board, names, upTo - 1) \o hostConstraint(objects, names, board[upTo])

\* The array `cs`
hostConstraints(objects, board, names) ==
    << FixedConstraint("origin", Pos(0, 0)), FixedConstraint("x-axis", Pos(Unit, 0)) >>
    \o boardConstraints(objects, board, names, Len(board))

\* The keys of figureIDMap, in insertion order, after serializeFigures has
\* serialized the first `upTo` figures: figureIDs names a figure "f" + size
\* when it is first asked for, the figure itself before what it refers to.
RECURSIVE figureIDMapAfter(_, _, _)
figureIDMapAfter(objects, board, upTo) ==
    IF upTo = 0 THEN <<>>
    ELSE addAll(figureIDMapAfter(objects, board, upTo - 1),
                <<board[upTo]>> \o dependsOn(objects, board[upTo]))

\* serializeFigure(figure, figureIDs), the id "f" + n as the number n
serializeFigure(objects, ids, figure) ==
    CASE objects[figure].class = "PointFigure" -> objects[figure]
      [] objects[figure].class = "DimensionPointSegmentDistanceFigure" ->
            [objects[figure] EXCEPT !.a = IndexOf(ids, @) - 1, !.b = IndexOf(ids, @) - 1]
      [] OTHER ->
            [objects[figure] EXCEPT !.from = IndexOf(ids, @) - 1, !.to = IndexOf(ids, @) - 1]

\* saving.serializeFigures(seq): the object that JSON.stringify writes
serializeFigures(objects, seq) ==
    LET ids == figureIDMapAfter(objects, seq, Len(seq))
    IN [figures |-> [k \in 1..Len(seq) |->
            <<IndexOf(ids, seq[k]) - 1, serializeFigure(objects, ids, seq[k])>>]]

\* A faulty pointByName, for the sensitivity of C30: the names are given to
\* the points in the reverse order, so that a solution moves another point.
pointByNameReversed(names) ==
    [name \in {PointNames[k] : k \in 1..Len(names)} |-> names[Len(names) + 1 - IndexOf(PointNames, name)]]

\* The Map pointByName
hostPointByName(names) ==
    [name \in {PointNames[k] : k \in 1..Len(names)} |-> names[IndexOf(PointNames, name)]]

\* How many frames solve in a row before the model stops counting
MaxFrames == 4

\* recalculateConstraints up to its call of solve: the frame solves when the
\* serialization of the board is not the one last solved.
Recalculate ==
    /\ pc = "idle"
    /\ IF serializeFigures(figures, boardFigures) # lastSerialization
       THEN /\ calls < MaxFrames
            /\ \E names \in {pointName(figures, boardFigures, cursorMode)} :
                /\ initialPoints' = hostVariables(figures, names)
                /\ constraints' = hostConstraints(figures, boardFigures, names)
                /\ pointByName' = hostPointByName(names)
            /\ solution' = newSolution(solution)
            /\ log' = newLog(log)
            /\ remaining' = <<>>
            /\ pc' = "solving"
            /\ calls' = calls + 1
            /\ previous' = IF calls = 0 THEN NoResult ELSE [pc |-> "returned", solution |-> solution, log |-> log]
       ELSE /\ pc' = "settled"
            /\ UNCHANGED <<initialPoints, constraints, pointByName, solution, log, remaining, calls, previous>>
    /\ UNCHANGED <<figures, boardFigures, cursorMode, lastSerialization, removal, operands, outcome>>

\* recalculateConstraints after solve has returned: the named points are
\* moved to their solutions and the serialization taken before is kept.
Apply ==
    /\ pc = "returned"
    /\ figures' = [f \in DOMAIN figures |->
            IF \E name \in DOMAIN pointByName : pointByName[name] = f
            THEN [figures[f] EXCEPT !.position =
                    solution[CHOOSE name \in DOMAIN pointByName : pointByName[name] = f]]
            ELSE figures[f]]
    /\ lastSerialization' = serializeFigures(figures, boardFigures)
    /\ pc' = "idle"
    /\ UNCHANGED <<boardFigures, cursorMode, pointByName, removal>>
    /\ UNCHANGED <<initialPoints, constraints, solution, log, remaining, calls, previous, operands, outcome>>

\* mousemove while a point is dragged: moveDragged puts it under the mouse
MouseMove ==
    /\ pc \in {"idle", "settled"}
    /\ cursorMode.tag = "move"
    /\ cursorMode.dragging # NoFigure
    /\ figures[cursorMode.dragging].class = "PointFigure"
    /\ \E world \in MousePositions : figures' = moveDragged(figures, cursorMode, world)
    /\ pc' = "idle"
    /\ calls' = 0
    /\ previous' = NoResult
    /\ UNCHANGED <<boardFigures, cursorMode, lastSerialization, pointByName, removal>>
    /\ UNCHANGED <<initialPoints, constraints, solution, log, remaining, operands, outcome>>

\* A board: the Figure objects and the array boardFigures
Board(objects) == [figures |-> objects, boardFigures |-> [k \in 1..Len(objects) |-> k]]

\* Boards drawn with the handlers above: nothing; a segment with its length;
\* a segment made horizontal; a point put on a segment; a segment whose
\* length is below EPSILON; two segments at a right angle; a point at a
\* distance of a segment it ends; the triangle of the smoke test.
HostBoards == {
    Board(<<>>),
    Board(<< PointFigure(P(1, 1)), PointFigure(P(5, 2)), SegmentFigure(1, 2),
             DimensionPointDistanceFigure(1, 2, L(3)) >>),
    Board(<< PointFigure(P(1, 1)), PointFigure(P(5, 2)), SegmentFigure(1, 2),
             ConstraintFixedAngle(1, 2, 0), DimensionPointDistanceFigure(1, 2, L(3)) >>),
    Board(<< PointFigure(P(1, 1)), PointFigure(P(5, 1)), SegmentFigure(1, 2),
             PointFigure(P(3, 1)), DimensionPointSegmentDistanceFigure(4, 3, 0),
             DimensionPointDistanceFigure(1, 4, L(3)) >>),
    Board(<< PointFigure(P(1, 1)), PointFigure(P(4, 5)), SegmentFigure(1, 2),
             DimensionPointDistanceFigure(1, 2, EPSILON \div 2) >>),
    Board(<< PointFigure(P(1, 1)), PointFigure(P(5, 1)), PointFigure(P(4, 4)),
             SegmentFigure(1, 2), SegmentFigure(2, 3),
             DimensionSegmentAngleFigure(4, 5, 90) >>),
    Board(<< PointFigure(P(1, 1)), PointFigure(P(5, 1)), SegmentFigure(1, 2),
             DimensionPointSegmentDistanceFigure(1, 3, L(3)) >>),
    Board(<< PointFigure(P(2, 2)), PointFigure(P(4, 6)), PointFigure(P(8, 9)),
             SegmentFigure(1, 2), SegmentFigure(2, 3), SegmentFigure(3, 1),
             DimensionPointDistanceFigure(1, 2, L(5)),
             DimensionPointDistanceFigure(2, 3, L(5)),
             DimensionPointDistanceFigure(3, 1, L(5)) >>) }

\* The page with a board on it, in the mode "move", a point being dragged or not
HostInit ==
    /\ \E board \in HostBoards :
        /\ figures = board.figures
        /\ boardFigures = board.boardFigures
        /\ \E dragging \in {NoFigure} \cup {f \in DOMAIN board.figures : board.figures[f].class = "PointFigure"} :
            cursorMode = [tag |-> "move", selected |-> dragging, dragging |-> dragging]
    /\ lastSerialization = NeverSerialized
    /\ pointByName = <<>>
    /\ removal = NoRemoval
    /\ initialPoints = <<>>
    /\ constraints = <<>>
    /\ solution = <<>>
    /\ log = <<>>
    /\ remaining = <<>>
    /\ pc = "idle"
    /\ calls = 0
    /\ previous = NoResult
    /\ operands = NoOperands
    /\ outcome = NoOutcome

HostNext == Recalculate \/ Round \/ Return \/ Apply \/ MouseMove

HostSpec == HostInit /\ [][HostNext]_vars

\* The point that is being dragged, as an array of no or one figure
DraggedPoint ==
    IF cursorMode.tag = "move" /\ cursorMode.dragging # NoFigure
       /\ figures[cursorMode.dragging].class = "PointFigure"
    THEN <<cursorMode.dragging>> ELSE <<>>

====
